---- MODULE Spec2Model ----
(***************************************************************************)
(* ScriptFS (eewanco/scriptfs): a FUSE filesystem that mirrors a directory *)
(* and, for every file classified as a script, serves the standard output  *)
(* of a program run on that file.  The model follows src/src/scriptfs.c    *)
(* (the FUSE callbacks, run_script) and src/src/operations.c (the tests,   *)
(* the program launchers, get_script, execute_program).                    *)
(*                                                                         *)
(* Paths and file contents are strings; descriptors and FileStruct         *)
(* pointers are positive integers; a return value is 0 or a negative errno *)
(* as in the C code.  Every FUSE callback is one action that leaves its    *)
(* result in `ret`; fuse_reply hands the result to the kernel before the   *)
(* next request is dispatched (Spec).  SpecMT is the server as fuse_main   *)
(* runs it by default, with worker threads whose handlers interleave at    *)
(* their accesses to shared memory and at their system calls.  SpecPipe is *)
(* one run of execute_program that feeds a filter through a pipe.          *)
(***************************************************************************)
EXTENDS Integers, Sequences, FiniteSets, TLC

VARIABLES
    mirror,     \* the mirror directory: relative name -> [mode, data, atime, mtime]
    procs,      \* persistent.procs: the ordered list of procedures
    eager,      \* persistent.return_real_size (-l)
    fdtab,      \* open descriptors of the server: fd -> [kind, name, data, pos, acc]
    handles,    \* live FileStruct objects: pointer -> [type, file_handle, filename]
    tmpfiles,   \* names created from persistent.tmp_template that exist on disk
    ret,        \* result of the callback that just ran (the reply in flight)
    pre,        \* history: the state the callback that just ran started from
    nops,       \* number of requests dispatched so far
    nedits,     \* number of changes other processes made directly in the mirror
    threads,    \* worker threads of the FUSE loop: thread -> its request and position
    children,   \* processes forked by the server: pid -> [argv, state, status, ...]
    heap,       \* strings that were freed and may still be pointed at
    shm,        \* content of the files named in tmpfiles: name -> [data, mode]
    nruns,      \* number of requests taken so far that classify a file
    pipe        \* one run of execute_program feeding a filter through a pipe

vars == <<mirror, procs, eager, fdtab, handles, tmpfiles, ret, pre, nops, nedits,
          threads, children, heap, shm, nruns, pipe>>

\* the variables of the threaded server and of the pipe, which the handlers
\* taken one at a time leave alone
mtvars == <<threads, children, heap, shm, nruns>>

----------------------------------------------------------------------------
(* Bounds of the model *)

MaxOps == 2
MaxEdits == 1

----------------------------------------------------------------------------
(* Program constants (errno.h, fcntl.h, sys/stat.h, unistd.h values as used) *)

ENOENT == 2
EBADF == 9
EACCES == 13
EISDIR == 21
EMFILE == 24

O_RDONLY == 0
O_WRONLY == 1
O_RDWR == 2
O_LARGEFILE == 32768
O_CREAT == 64
O_TRUNC == 512

X_OK == 1
W_OK == 2
R_OK == 4

S_IFREG == 32768
S_IFDIR == 16384
S_IFLNK == 40960
S_IRUSR == 256
S_IWUSR == 128
S_IXUSR == 64
S_IWGRP == 16
S_IWOTH == 2

MirrorFd == 3

----------------------------------------------------------------------------
(* C integer operators on the values the program uses *)

\* a & b for a mask b of a single bit
Bit(a, b) == ((a \div b) % 2) * b

\* mode & S_IFMT: the file type bits, above the twelve permission bits
FileType(mode) == mode - (mode % 4096)

\* mode & 07777: the permission bits
Perms(mode) == mode % 4096

\* Variant: only the owner's write bit.
WriteBits_owner(mode) == Bit(mode, S_IWUSR)

\* mode & (S_IWUSR | S_IWGRP | S_IWOTH)
WriteBits(mode) == Bit(mode, S_IWUSR) + Bit(mode, S_IWGRP) + Bit(mode, S_IWOTH)

\* flags & O_ACCMODE
AccMode(flags) == flags % 4

S_ISREG(mode) == FileType(mode) = S_IFREG
S_ISDIR(mode) == FileType(mode) = S_IFDIR
S_ISLNK(mode) == FileType(mode) = S_IFLNK

----------------------------------------------------------------------------
(* Strings *)

Min(a, b) == IF a < b THEN a ELSE b


\* regexec of a compiled pattern without metacharacters: the pattern occurs
\* somewhere in the string
Contains(s, p) ==
    \E i \in 1..(Len(s) + 1) : i + Len(p) - 1 <= Len(s) /\ SubSeq(s, i, i + Len(p) - 1) = p

\* pread-style slice of a file: n bytes from offset off (0-based)
Slice(data, off, n) ==
    IF off >= Len(data) THEN "" ELSE SubSeq(data, off + 1, Min(Len(data), off + n))

----------------------------------------------------------------------------
(* relative_path: "/" -> ".", "/x/y" -> "x/y", empty -> null (here "") *)

relative_path(path) ==
    IF path = "" THEN ""
    ELSE IF path = "/" THEN "."
    ELSE SubSeq(path, 2, Len(path))

----------------------------------------------------------------------------
(* The mirror directory as the kernel presents it *)

Names == {".", "a", "b", "l", "n"}

NoEntry == [mode |-> 0, data |-> "", atime |-> "t0", mtime |-> "t0"]

Exists(m, name) == name \in DOMAIN m /\ m[name].mode # 0

\* name resolution: the entry a path names, following a final symbolic link
\* when `follow`; "" when nothing is there
Resolve(m, name, follow) ==
    IF ~Exists(m, name) THEN ""
    ELSE IF follow /\ S_ISLNK(m[name].mode)
         THEN (IF Exists(m, m[name].data) /\ ~S_ISLNK(m[m[name].data].mode)
               THEN m[name].data ELSE "")
    ELSE name

\* fstatat(persistent.mirror_fd, name, &st, flags)
fstatat(m, name, follow) ==
    LET e == Resolve(m, name, follow) IN
    IF e = "" THEN [code |-> -1, errno |-> ENOENT, st_mode |-> 0, st_size |-> 0]
    ELSE [code |-> 0, errno |-> 0, st_mode |-> m[e].mode, st_size |-> Len(m[e].data)]

\* permission check of the owner (the server runs as the owner of the mirror)
MayAccess(mode, mask) ==
    /\ (Bit(mask, R_OK) # 0 => Bit(mode, S_IRUSR) # 0)
    /\ (Bit(mask, W_OK) # 0 => Bit(mode, S_IWUSR) # 0)
    /\ (Bit(mask, X_OK) # 0 => Bit(mode, S_IXUSR) # 0)

\* faccessat(persistent.mirror_fd, name, mask, 0)
faccessat(m, name, mask) ==
    LET e == Resolve(m, name, TRUE) IN
    IF e = "" THEN [code |-> -1, errno |-> ENOENT]
    ELSE IF MayAccess(m[e].mode, mask) THEN [code |-> 0, errno |-> 0]
    ELSE [code |-> -1, errno |-> EACCES]

\* access mode requested by open flags
AccMask(flags) ==
    LET acc == AccMode(flags) IN
    IF acc = O_RDONLY THEN R_OK ELSE IF acc = O_WRONLY THEN W_OK ELSE R_OK + W_OK

\* openat(persistent.mirror_fd, name, flags) without O_CREAT: the entry the new
\* descriptor refers to, or the errno
openat(m, name, flags) ==
    LET e == Resolve(m, name, TRUE) IN
    IF e = "" THEN [ok |-> FALSE, errno |-> ENOENT, name |-> ""]
    ELSE IF S_ISDIR(m[e].mode) /\ AccMode(flags) # O_RDONLY
         THEN [ok |-> FALSE, errno |-> EISDIR, name |-> ""]
    ELSE IF ~MayAccess(m[e].mode, AccMask(flags))
         THEN [ok |-> FALSE, errno |-> EACCES, name |-> ""]
    ELSE [ok |-> TRUE, errno |-> 0, name |-> e]

----------------------------------------------------------------------------
(* Procedures (struct Procedure, Program, Test as operations.c uses them).  *)
(* A null pointer is NULL; a null function or procedure pointer is "none"   *)
(* or index 0.                                                              *)

NULL == "(null)"

tmp_template == "/dev/shm/sfs."

NoTest == [func |-> "none", path |-> NULL, args |-> <<>>, filearg |-> 0,
           filter |-> FALSE, compiled |-> NULL]

\* the procedure main() installs when no -p is given (-p auto)
AutoProcedure ==
    [program |-> [func |-> "program_shell", path |-> NULL, args |-> <<>>,
                  filearg |-> 0, filter |-> FALSE],
     test |-> [NoTest EXCEPT !.func = "test_shell_executable"]]

\* -p 'auto;always'
AutoAlways == [AutoProcedure EXCEPT !.test.func = "test_true"]

\* an external command line: the first token is the program, the token "!"
\* marks the file argument, a command without "!" is a filter
FileArg(args) ==
    IF \E i \in 1..Len(args) : args[i] = "!"
    THEN CHOOSE i \in 1..Len(args) : args[i] = "!" /\ \A j \in 1..(i - 1) : args[j] # "!"
    ELSE 0

ExternalProgram(args) ==
    [func |-> "program_external", path |-> args[1], args |-> args,
     filearg |-> FileArg(args), filter |-> FileArg(args) = 0]

ExternalTest(args) ==
    [func |-> "test_program", path |-> args[1], args |-> args,
     filearg |-> FileArg(args), filter |-> FileArg(args) = 0, compiled |-> NULL]

PatternTest(regex) == [NoTest EXCEPT !.func = "test_pattern", !.compiled = regex]

\* the procedure lists of four mounts:
\*   (no -p)   |   -p 'echo !;&a' -p 'auto;always'   |   -p 'p !'   |   -p 'f'
ProcsAuto == <<AutoProcedure>>
ProcsFirst == << [program |-> ExternalProgram(<<"echo", "!">>), test |-> PatternTest("a")],
                 AutoAlways >>
ProcsSame == << [program |-> ExternalProgram(<<"p", "!">>),
                 test |-> ExternalTest(<<"p", "!">>)] >>
ProcsFilter == << [program |-> ExternalProgram(<<"f">>), test |-> ExternalTest(<<"f">>)] >>

Mounts == {ProcsAuto, ProcsFirst, ProcsSame, ProcsFilter}

----------------------------------------------------------------------------
(* Child processes.  What a spawned program does is the environment's      *)
(* choice: it exits with a status or is killed (abort() after a failed     *)
(* exec included), having written `out` to its standard output.            *)

Children ==
    { [exited |-> TRUE,  status |-> 0, out |-> "Hi"],
      [exited |-> TRUE,  status |-> 1, out |-> "Yo!"],
      [exited |-> FALSE, status |-> 0, out |-> ""] }

NoChild == [exited |-> TRUE, status |-> 0, out |-> ""]

TestChildren ==
    { NoChild, [NoChild EXCEPT !.status = 1], [NoChild EXCEPT !.exited = FALSE] }

\* the test children of one classification: one per external test
TestEnvs(ps) ==
    { tenv \in [1..Len(ps) -> TestChildren] :
        \A i \in 1..Len(ps) : ps[i].test.func # "test_program" => tenv[i] = NoChild }

----------------------------------------------------------------------------
(* Descriptors, FileStruct pointers, temporary names *)

\* Variant: every open gives the descriptor after mirror_fd.
NewFd_first(fds) == MirrorFd + 1

\* the lowest descriptor that is not open (0, 1, 2 and mirror_fd are)
NewFd(fds) ==
    CHOOSE fd \in (MirrorFd + 1)..(MirrorFd + 1 + Cardinality(DOMAIN fds)) :
        fd \notin DOMAIN fds /\ \A g \in (MirrorFd + 1)..(fd - 1) : g \in DOMAIN fds

\* malloc(sizeof(FileStruct)): an address no live FileStruct has
NewPtr(hs) ==
    CHOOSE p \in 1..(1 + Cardinality(DOMAIN hs)) :
        p \notin DOMAIN hs /\ \A q \in 1..(p - 1) : q \in DOMAIN hs

\* mkstemp(template): a name that does not exist yet
TmpNames == <<tmp_template \o "000001", tmp_template \o "000002",
             tmp_template \o "000003", tmp_template \o "000004">>

mkstemp(tmps) ==
    TmpNames[CHOOSE i \in 1..Len(TmpNames) :
                TmpNames[i] \notin tmps /\ \A j \in 1..(i - 1) : TmpNames[j] \in tmps]

\* what the environment decides during one run of a script: whether mkstemp
\* succeeds for the artifact and for the temp copy, and what the child does
RunEnvs ==
    { [mkart |-> FALSE, mkcopy |-> FALSE, child |-> NoChild] }
      \cup [mkart : {TRUE}, mkcopy : BOOLEAN, child : Children]

NoRunEnv == [mkart |-> FALSE, mkcopy |-> FALSE, child |-> NoChild]

----------------------------------------------------------------------------
(* execute_program.  fork is taken to succeed.  The parent returns the     *)
(* exit status of a child that exited and 1 otherwise; when path_in is     *)
(* given it first copies that mirror file into the pipe the child has as   *)
(* standard input, through a descriptor it does not close.                 *)

\* Variant: the status is returned without asking how the child ended.
execute_program_status(child) == child.status

execute_program(child) == IF child.exited THEN child.status ELSE 1

\* the descriptor `in` once openat returned: what was copied into the pipe
\* and the descriptors of the server afterwards
execute_program_in(m, fds, path_in, in) ==
    IF ~in.ok THEN [closed |-> FALSE, path |-> path_in, data |-> "", fdtab |-> fds]
    ELSE [closed |-> FALSE, path |-> path_in,
          data |-> IF S_ISDIR(m[in.name].mode) THEN "" ELSE m[in.name].data,
          fdtab |-> fds @@ (NewFd(fds) :> [kind |-> "mirror", name |-> in.name, data |-> "",
                                            pos |-> Len(m[in.name].data), acc |-> O_RDONLY])]

\* the standard input execute_program gives the child: closed when path_in
\* is null, else a pipe fed with the mirror file path_in
execute_program_stdin(m, fds, path_in) ==
    IF path_in = NULL THEN [closed |-> TRUE, path |-> NULL, data |-> "", fdtab |-> fds]
    ELSE execute_program_in(m, fds, path_in, openat(m, path_in, O_RDONLY))

----------------------------------------------------------------------------
(* Test functions.  An external test gives [match, argv, stdin, test,      *)
(* fdtab]: the argv and standard input of its child, the Test structure    *)
(* and the descriptors as the call left them.                              *)

test_true(test, file) == TRUE

test_shell(m, file) ==
    LET o == openat(m, file, O_RDONLY)
        magic == IF o.ok /\ ~S_ISDIR(m[o.name].mode) THEN Slice(m[o.name].data, 0, 2) ELSE ""
    IN  o.ok /\ ~(Len(magic) < 2 \/ magic # "#!")

test_executable(m, file) == faccessat(m, file, X_OK).code = 0

test_shell_executable(m, file) == test_shell(m, file) \/ test_executable(m, file)

test_pattern(test, file) ==
    IF test.compiled = NULL THEN FALSE ELSE Contains(file, test.compiled)

test_program(test, file, m, fds, child) ==
    LET hasarg == test.args # <<>> /\ test.filearg # 0
        args == IF hasarg THEN [test.args EXCEPT ![test.filearg] = file] ELSE test.args
        f == IF test.filter THEN file ELSE NULL
        code == execute_program(child)
    IN  [match |-> code = 0,
         argv |-> args,
         stdin |-> execute_program_stdin(m, fds, f),
         test |-> IF hasarg THEN [test EXCEPT !.args[test.filearg] = ""] ELSE test]

\* the standard input of a child that has none, for a test that forks none
NoStdin(fds) == [closed |-> TRUE, path |-> NULL, data |-> "", fdtab |-> fds]

\* test->func(test, file)
CallTest(test, file, m, fds, child) ==
    IF test.func = "test_program" THEN test_program(test, file, m, fds, child)
    ELSE [match |-> CASE test.func = "test_true" -> test_true(test, file)
                      [] test.func = "test_executable" -> test_executable(m, file)
                      [] test.func = "test_shell_executable" -> test_shell_executable(m, file)
                      [] test.func = "test_pattern" -> test_pattern(test, file)
                      [] OTHER -> FALSE,
          argv |-> <<>>, stdin |-> NoStdin(fds), test |-> test]

----------------------------------------------------------------------------
(* get_script: the first procedure whose test matches.  The result carries  *)
(* the index of the procedure (0: none), the tests invoked in order with   *)
(* the argv and standard input of their children, and the list and the     *)
(* descriptors as the tests left them.                                     *)

\* one step of the loop, r being what the test call returned
RECURSIVE get_script_while(_, _, _, _, _, _, _, _, _)
get_script_step(ps, i, res, invoked, runs, fds, file, m, tenv, call, r) ==
    get_script_while(IF call THEN [ps EXCEPT ![i].test = r.test] ELSE ps,
                     i + 1,
                     IF call /\ r.match THEN i ELSE res,
                     IF call THEN Append(invoked, i) ELSE invoked,
                     IF call THEN Append(runs, [argv |-> r.argv,
                                                stdin |-> [closed |-> r.stdin.closed,
                                                           path |-> r.stdin.path,
                                                           data |-> r.stdin.data]])
                     ELSE runs,
                     IF call THEN r.stdin.fdtab ELSE fds,
                     file, m, tenv)

get_script_while(ps, i, res, invoked, runs, fds, file, m, tenv) ==
    IF ~(res = 0 /\ i <= Len(ps))
    THEN [res |-> res, invoked |-> invoked, runs |-> runs, procs |-> ps, fdtab |-> fds]
    ELSE get_script_step(ps, i, res, invoked, runs, fds, file, m, tenv,
                         ps[i].test.func # "none",
                         CallTest(ps[i].test, file, m, fds, tenv[i]))

\* Variant: the loop without its res==0 condition.  Every test is called and
\* the last match wins.
RECURSIVE get_script_last_while(_, _, _, _, _, _, _, _, _)
get_script_last_while(ps, i, res, invoked, runs, fds, file, m, tenv) ==
    IF i > Len(ps)
    THEN [res |-> res, invoked |-> invoked, runs |-> runs, procs |-> ps, fdtab |-> fds]
    ELSE get_script_last_while(
             [ps EXCEPT ![i].test = CallTest(ps[i].test, file, m, fds, tenv[i]).test],
             i + 1,
             IF CallTest(ps[i].test, file, m, fds, tenv[i]).match THEN i ELSE res,
             Append(invoked, i), Append(runs, [argv |-> <<>>, stdin |-> <<>>]),
             fds, file, m, tenv)

get_script_last(ps, file, m, fds, tenv) ==
    get_script_last_while(ps, 1, 0, <<>>, <<>>, fds, file, m, tenv)

get_script(ps, file, m, fds, tenv) ==
    get_script_while(ps, 1, 0, <<>>, <<>>, fds, file, m, tenv)

\* the operand of && that was not evaluated
NotClassified(ps, fds) ==
    [res |-> 0, invoked |-> <<>>, runs |-> <<>>, procs |-> ps, fdtab |-> fds]

----------------------------------------------------------------------------
(* temp_copy: [name, errno]; name = NULL when the copy could not be made *)

\* the copy once the source is open: fin is the result of opening it
temp_copy_fin(m, fin, tmps, env) ==
    IF ~fin.ok THEN [name |-> NULL, errno |-> fin.errno, data |-> "", mode |-> 0]
    ELSE IF ~env.mkcopy THEN [name |-> NULL, errno |-> EMFILE, data |-> "", mode |-> 0]
    ELSE [name |-> mkstemp(tmps), errno |-> 0,
          data |-> IF S_ISDIR(m[fin.name].mode) THEN "" ELSE m[fin.name].data,
          mode |-> Bit(m[fin.name].mode, S_IRUSR) + Bit(m[fin.name].mode, S_IXUSR)]

temp_copy(m, file, tmps, env) == temp_copy_fin(m, openat(m, file, O_RDONLY), tmps, env)

----------------------------------------------------------------------------
(* call_program, in the child: what is handed to fexecve for a file whose  *)
(* bytes are `data`.  path = NULL: call_program returns without an exec    *)
(* and the child aborts.                                                   *)

Char(s, k) == IF k < Len(s) THEN SubSeq(s, k + 1, k + 1) ELSE ""

\* getline: the first line of the file, its newline included
RECURSIVE getline(_, _)
getline(data, k) ==
    IF k >= Len(data) THEN data
    ELSE IF Char(data, k) = "\n" THEN SubSeq(data, 1, k + 1)
    ELSE getline(data, k + 1)

\* while (i<n && (line[i]==' ' || line[i]=='\t')) ++i
RECURSIVE SkipBlanks(_, _)
SkipBlanks(line, i) ==
    IF i < Len(line) /\ Char(line, i) \in {" ", "\t"} THEN SkipBlanks(line, i + 1) ELSE i

\* while (j<n && (line[j-1]=='\\' || (line[j] is no blank and no newline))) ++j
RECURSIVE SkipWord(_, _)
SkipWord(line, j) ==
    IF j < Len(line) /\ (Char(line, j - 1) = "\\" \/ Char(line, j) \notin {" ", "\t", "\n"})
    THEN SkipWord(line, j + 1) ELSE j

NoExec == [path |-> NULL, argv |-> <<>>]

\* the shebang line parsed: i is where the interpreter starts
call_program_shebang(line, i, args) ==
    IF i >= Len(line) \/ Char(line, i) = "\n" THEN NoExec
    ELSE [path |-> SubSeq(line, i + 1, SkipWord(line, i)),
          argv |-> <<SubSeq(line, i + 1, SkipWord(line, i))>> \o args]

\* Variant: the file is executed itself whatever its first line.
call_program_direct(file, args, readable, line) ==
    IF ~readable THEN NoExec ELSE [path |-> file, argv |-> args]

\* call_program(file, args) for a file that can be opened or not and whose
\* first line is `line`
call_program(file, args, readable, line) ==
    IF ~readable THEN NoExec
    ELSE IF Len(line) >= 2 /\ Char(line, 0) = "#" /\ Char(line, 1) = "!"
    THEN call_program_shebang(line, SkipBlanks(line, 2), args)
    ELSE [path |-> file, argv |-> args]

----------------------------------------------------------------------------
(* Program functions.  Result: the code returned, the children forked, the  *)
(* argv and standard input of the child, the temporary copy made for it,   *)
(* the temporary names on disk while it ran (live), what call_program      *)
(* executes (exec; none for a program file outside the mirror, which the   *)
(* model does not hold), what the child wrote to the descriptor, and the   *)
(* Program structure, the temporary names and the descriptors as the call  *)
(* left them.                                                              *)

NoCopy == [name |-> NULL, errno |-> 0, data |-> "", mode |-> 0]

\* program_shell after temp_copy returned tmpfil
program_shell_tmpfil(program, tmpfil, fds, tmps, env) ==
    IF tmpfil.name = NULL
    THEN [code |-> -tmpfil.errno, forks |-> 0, argv |-> <<>>, stdin |-> NoStdin(fds),
          copy |-> tmpfil, live |-> tmps, exec |-> NoExec,
          out |-> "", program |-> program, tmps |-> tmps, fdtab |-> fds]
    ELSE [code |-> execute_program(env.child), forks |-> 1, argv |-> <<tmpfil.name>>,
          stdin |-> execute_program_stdin(<<>>, fds, NULL), copy |-> tmpfil,
          live |-> tmps \cup {tmpfil.name},
          exec |-> call_program(tmpfil.name, <<tmpfil.name>>,
                                Bit(tmpfil.mode, S_IRUSR) # 0, getline(tmpfil.data, 0)),
          out |-> env.child.out, program |-> program,
          tmps |-> (tmps \cup {tmpfil.name}) \ {tmpfil.name}, fdtab |-> fds]

program_shell(program, file, m, fds, tmps, env) ==
    program_shell_tmpfil(program, temp_copy(m, file, tmps, env), fds, tmps, env)

\* Variant: the file is piped to the child whatever the command line.
program_external_f_always(program, file) == file

\* const char *f=(program->filter && program->filearg==0)?file:0
program_external_f(program, file) ==
    IF program.filter /\ program.filearg = 0 THEN file ELSE NULL

\* program_external with the file argument slot set to copy (name NULL: no
\* copy), stdin being what execute_program made the child's standard input
program_external_copy(program, file, copy, stdin, tmps, env) ==
    LET hasarg == program.args # <<>> /\ program.filearg # 0
        args == IF hasarg THEN [program.args EXCEPT ![program.filearg] = copy.name]
                ELSE program.args
        made == IF hasarg /\ copy.name # NULL THEN {copy.name} ELSE {}
    IN  [code |-> execute_program(env.child), forks |-> 1, argv |-> args,
         stdin |-> stdin, copy |-> copy, live |-> tmps \cup made, exec |-> NoExec,
         out |-> env.child.out,
         program |-> IF hasarg THEN [program EXCEPT !.args[program.filearg] = NULL]
                     ELSE program,
         tmps |-> (tmps \cup made) \ made, fdtab |-> stdin.fdtab]

\* Variant: the file argument of a program is the name of the file in the
\* mirror.
program_external_virtual(program, file, m, fds, tmps, env) ==
    program_external_copy(program, file, [NoCopy EXCEPT !.name = file],
                          execute_program_stdin(m, fds, program_external_f(program, file)),
                          tmps, env)

program_external(program, file, m, fds, tmps, env) ==
    program_external_copy(program, file,
                          IF program.args # <<>> /\ program.filearg # 0
                          THEN temp_copy(m, file, tmps, env) ELSE NoCopy,
                          execute_program_stdin(m, fds, program_external_f(program, file)),
                          tmps, env)

\* proc->program->func(proc->program, relative, handle)
CallProgram(program, file, m, fds, tmps, env) ==
    IF program.func = "program_shell" THEN program_shell(program, file, m, fds, tmps, env)
    ELSE program_external(program, file, m, fds, tmps, env)

----------------------------------------------------------------------------
(* run_script: create the artifact, unlink it, run the program into it.    *)
(* handle is the artifact's descriptor or a negative errno.                *)

NoRun(ps, fds, tmps) ==
    [handle |-> 0, fdtab |-> fds, procs |-> ps, tmps |-> tmps, calls |-> 0, forks |-> 0,
     out |-> "", argv |-> <<>>, stdin |-> [closed |-> TRUE, path |-> NULL, data |-> ""],
     copy |-> NoCopy, live |-> {}, exec |-> NoExec, direct_io |-> FALSE, env |-> NoRunEnv]

\* the artifact as mkstemp opens it
Artifact(temp_filename) ==
    [kind |-> "artifact", name |-> temp_filename, data |-> "", pos |-> 0, acc |-> O_RDWR]

\* Variant: the program's output does not reach the artifact.
run_script_handle_empty(p, ps, handle, r, env) ==
    [NoRun(ps, r.fdtab, r.tmps)
       EXCEPT !.handle = handle, !.procs = [ps EXCEPT ![p].program = r.program],
              !.calls = 1, !.forks = r.forks, !.out = r.out, !.argv = r.argv,
              !.stdin = [closed |-> r.stdin.closed, path |-> r.stdin.path,
                         data |-> r.stdin.data],
              !.copy = r.copy, !.live = r.live, !.exec = r.exec,
              !.direct_io = TRUE, !.env = env]

\* run_script once the artifact is open on `handle`: r is what the program
\* function did
run_script_handle(p, ps, handle, r, env) ==
    [NoRun(ps, [r.fdtab EXCEPT ![handle].data = r.out, ![handle].pos = Len(r.out)], r.tmps)
       EXCEPT !.handle = handle, !.procs = [ps EXCEPT ![p].program = r.program],
              !.calls = 1, !.forks = r.forks, !.out = r.out, !.argv = r.argv,
              !.stdin = [closed |-> r.stdin.closed, path |-> r.stdin.path,
                         data |-> r.stdin.data],
              !.copy = r.copy, !.live = r.live, !.exec = r.exec,
              !.direct_io = TRUE, !.env = env]

\* the result of run_script when mkstemp fails
run_script_failed(ps, fds, tmps, env) ==
    [NoRun(ps, fds, tmps) EXCEPT !.handle = -EMFILE, !.env = env]

\* Variant: a program function that returns nonzero fails the run.
run_script_checked(relative, p, ps, m, fds, tmps, env) ==
    IF ~env.mkart
       \/ CallProgram(ps[p].program, relative, m, fds, tmps, env).code # 0
    THEN run_script_failed(ps, fds, tmps, env)
    ELSE run_script_handle(p, ps, NewFd(fds),
                           CallProgram(ps[p].program, relative, m,
                                       fds @@ (NewFd(fds) :> Artifact(mkstemp(tmps))),
                                       tmps, env),
                           env)

\* Variant: run_script without its unlink of the artifact.
run_script_linked(relative, p, ps, m, fds, tmps, env) ==
    IF ~env.mkart THEN run_script_failed(ps, fds, tmps, env)
    ELSE run_script_handle(p, ps, NewFd(fds),
             CallProgram(ps[p].program, relative, m,
                         fds @@ (NewFd(fds) :> Artifact(mkstemp(tmps))),
                         tmps \cup {mkstemp(tmps)}, env),
             env)

run_script(relative, p, ps, m, fds, tmps, env) ==
    IF ~env.mkart THEN run_script_failed(ps, fds, tmps, env)
    ELSE run_script_handle(p, ps, NewFd(fds),
             \* the artifact is unlinked before the program function is called
             CallProgram(ps[p].program, relative, m,
                         fds @@ (NewFd(fds) :> Artifact(mkstemp(tmps))),
                         (tmps \cup {mkstemp(tmps)}) \ {mkstemp(tmps)}, env),
             env)

\* Variant: close leaves the descriptor open.
close_none(fds, fd) == fds

\* close(fd): an open descriptor is closed, anything else is EBADF
close(fds, fd) == [g \in DOMAIN fds \ {fd} |-> fds[g]]

----------------------------------------------------------------------------
(* Requests and replies *)

VPaths == {"/", "/a", "/b", "/l", "/n"}
OpenFlags == {O_RDONLY, O_WRONLY, O_LARGEFILE + O_RDWR}
AccessMasks == {R_OK, W_OK}
\* 0555 and 0777, with the type bits the kernel passes along
ChmodModes == {S_IFREG + 365, S_IFREG + 511}
TruncateSizes == {3}
TimeSpecs == {<<"t1", "t2">>}

\* the reply of a callback, with what the callback did on the way:
\*   code              the value returned
\*   st_mode, st_size  the attributes getattr filled in
\*   fh                fi->fh as open left it
\*   classified        get_script was called; matched, invoked, tenv: its result,
\*                     the tests it invoked and the outcomes of their children
\*   applied           the mode handed to fchmodat
\*   runs              the argv and standard input of the child of each test
\*   calls, forks      program functions called and program children forked
\*   artifact, out     an artifact was created; what the child wrote into it
\*   argv, stdin       the argv and standard input of the program's child
\*   copy, live        the temporary copy made for it; the temporary names on
\*                     disk while it ran
\*   exec              what the child handed to fexecve
\*   entries           the names readdir handed to the filler
Idle ==
    [op |-> "idle", path |-> "", arg |-> 0, code |-> 0, st_mode |-> 0, st_size |-> 0,
     data |-> "", fh |-> 0, classified |-> FALSE, matched |-> 0, invoked |-> <<>>,
     tenv |-> <<>>, runs |-> <<>>, applied |-> 0, calls |-> 0, forks |-> 0,
     artifact |-> FALSE, out |-> "", env |-> NoRunEnv, argv |-> <<>>,
     stdin |-> [closed |-> TRUE, path |-> NULL, data |-> ""], copy |-> NoCopy,
     live |-> {}, exec |-> NoExec, entries |-> {}]

Reply(op, path, arg, code) ==
    [Idle EXCEPT !.op = op, !.path = path, !.arg = arg, !.code = code]

Classified(r, gs, tenv) ==
    [r EXCEPT !.classified = TRUE, !.matched = gs.res, !.invoked = gs.invoked,
              !.tenv = tenv, !.runs = gs.runs]

Ran(r, run) ==
    [r EXCEPT !.calls = run.calls, !.forks = run.forks, !.artifact = run.calls > 0,
              !.out = run.out, !.env = run.env, !.argv = run.argv, !.stdin = run.stdin,
              !.copy = run.copy, !.live = run.live, !.exec = run.exec]

\* the dispatcher takes the next request when the last reply was sent
\* no request is being handled
NoPre == [mirror |-> <<>>, procs |-> <<>>, fdtab |-> <<>>, handles |-> <<>>, tmpfiles |-> {}]

Dispatch ==
    /\ ret.op = "idle"
    /\ nops < MaxOps
    /\ nops' = nops + 1
    /\ pre' = [mirror |-> mirror, procs |-> procs, fdtab |-> fdtab, handles |-> handles,
                tmpfiles |-> tmpfiles]
    /\ UNCHANGED <<nedits, mtvars, pipe>>

fuse_reply ==
    /\ ret.op # "idle"
    /\ ret' = Idle
    /\ pre' = NoPre
    /\ UNCHANGED <<mirror, procs, eager, fdtab, handles, tmpfiles, nops, nedits, mtvars, pipe>>

----------------------------------------------------------------------------
(* Metadata callbacks *)

\* get_script(persistent.procs, relative) when `classify`, else not called
Classify(classify, relative, tenv) ==
    IF classify THEN get_script(procs, relative, mirror, fdtab, tenv)
    ELSE NotClassified(procs, fdtab)

sfs_getattr(path, tenv, env) ==
    /\ Dispatch
    /\ \E st \in {fstatat(mirror, relative_path(path), FALSE)} :
       \E gs \in {Classify(st.code = 0 /\ S_ISREG(st.st_mode), relative_path(path), tenv)} :
       \E run \in {IF gs.res # 0 /\ eager
                   THEN run_script(relative_path(path), gs.res, gs.procs, mirror, gs.fdtab,
                                   tmpfiles, env)
                   ELSE NoRun(gs.procs, gs.fdtab, tmpfiles)} :
       LET isreg == st.code = 0 /\ S_ISREG(st.st_mode)
           script == isreg /\ gs.res # 0
           \* fstat(handle, &realsize) succeeds on an open descriptor only
           rstat_ok == script /\ eager /\ run.handle \in DOMAIN run.fdtab
           r0 == [Reply("getattr", path, 0, IF st.code = 0 THEN 0 ELSE -st.errno)
                    EXCEPT !.st_mode = IF script THEN st.st_mode - WriteBits(st.st_mode)
                                       ELSE st.st_mode,
                           !.st_size = IF rstat_ok THEN Len(run.fdtab[run.handle].data)
                                       ELSE st.st_size]
       IN  /\ ret' = Ran(IF isreg THEN Classified(r0, gs, tenv) ELSE r0, run)
           /\ procs' = run.procs
           /\ fdtab' = IF script /\ eager THEN close(run.fdtab, run.handle) ELSE gs.fdtab
           /\ tmpfiles' = run.tmps
    /\ UNCHANGED <<mirror, eager, handles>>

sfs_access(path, mask, tenv) ==
    /\ Dispatch
    /\ LET relative == relative_path(path)
           acc == faccessat(mirror, relative, mask)
           wcheck == acc.code = 0 /\ Bit(mask, W_OK) # 0
           st == fstatat(mirror, relative, TRUE)
           classify == wcheck /\ st.code = 0 /\ S_ISREG(st.st_mode)
           gs == Classify(classify, relative, tenv)
           code == IF wcheck /\ st.code # 0 THEN -st.code
                   ELSE IF classify /\ gs.res # 0 THEN -1
                   ELSE IF acc.code = 0 THEN 0 ELSE -acc.errno
           r0 == Reply("access", path, mask, code)
       IN  /\ ret' = IF classify THEN Classified(r0, gs, tenv) ELSE r0
           /\ procs' = gs.procs
           /\ fdtab' = gs.fdtab
    /\ UNCHANGED <<mirror, eager, handles, tmpfiles>>

\* Variant: the owner keeps write permission whatever the mode.
fchmodat_owner(m, name, mode) ==
    LET e == Resolve(m, name, TRUE) IN
    IF e = "" THEN [code |-> -1, errno |-> ENOENT, mirror |-> m]
    ELSE [code |-> 0, errno |-> 0,
          mirror |-> [m EXCEPT ![e].mode = FileType(@) + Perms(mode)
                                  + (IF Bit(mode, S_IWUSR) = 0 THEN S_IWUSR ELSE 0)]]

\* fchmodat(persistent.mirror_fd, name, mode, 0)
fchmodat(m, name, mode) ==
    LET e == Resolve(m, name, TRUE) IN
    IF e = "" THEN [code |-> -1, errno |-> ENOENT, mirror |-> m]
    ELSE [code |-> 0, errno |-> 0,
          mirror |-> [m EXCEPT ![e].mode = FileType(@) + Perms(mode)]]

\* Variant: chmod refusing a mode with write bits on a script, as truncate
\* and utimens refuse.
sfs_chmod_refusing(path, mode, tenv) ==
    /\ Dispatch
    /\ LET relative == relative_path(path)
           st == fstatat(mirror, relative, TRUE)
           classify == st.code = 0 /\ S_ISREG(st.st_mode) /\ WriteBits(mode) # 0
           gs == Classify(classify, relative, tenv)
           script == classify /\ gs.res # 0
           ch == fchmodat(mirror, relative, mode)
           code == IF script THEN -EACCES ELSE IF ch.code = 0 THEN 0 ELSE -ch.errno
           r0 == Reply("chmod", path, mode, code)
       IN  /\ ret' = IF classify THEN Classified(r0, gs, tenv) ELSE r0
           /\ procs' = gs.procs
           /\ fdtab' = gs.fdtab
           /\ mirror' = IF script THEN mirror ELSE ch.mirror
    /\ UNCHANGED <<eager, handles, tmpfiles>>

sfs_chmod(path, mode, tenv) ==
    /\ Dispatch
    /\ LET relative == relative_path(path)
           st == fstatat(mirror, relative, TRUE)
           classify == st.code = 0 /\ S_ISREG(st.st_mode) /\ WriteBits(mode) # 0
           gs == Classify(classify, relative, tenv)
           mode2 == IF classify /\ gs.res # 0 THEN mode - WriteBits(mode) ELSE mode
           ch == fchmodat(mirror, relative, mode2)
           r0 == [Reply("chmod", path, mode, IF ch.code = 0 THEN 0 ELSE -ch.errno)
                    EXCEPT !.applied = mode2]
       IN  /\ ret' = IF classify THEN Classified(r0, gs, tenv) ELSE r0
           /\ procs' = gs.procs
           /\ fdtab' = gs.fdtab
           /\ mirror' = ch.mirror
    /\ UNCHANGED <<eager, handles, tmpfiles>>

\* ftruncate: the file cut or extended with zero bytes (written "~" here)
RECURSIVE Zeros(_)
Zeros(n) == IF n <= 0 THEN "" ELSE "~" \o Zeros(n - 1)

Truncated(data, size) ==
    IF size <= Len(data) THEN SubSeq(data, 1, size) ELSE data \o Zeros(size - Len(data))

\* Variant: truncate that classifies the file and goes on whatever the result.
sfs_truncate_unguarded(path, size, tenv) ==
    /\ Dispatch
    /\ LET relative == relative_path(path)
           st == fstatat(mirror, relative, TRUE)
           classify == st.code = 0 /\ S_ISREG(st.st_mode)
           gs == Classify(classify, relative, tenv)
           o == openat(mirror, relative, O_WRONLY)
           r0 == Reply("truncate", path, size, IF o.ok THEN 0 ELSE -EBADF)
       IN  /\ ret' = IF classify THEN Classified(r0, gs, tenv) ELSE r0
           /\ procs' = gs.procs
           /\ fdtab' = gs.fdtab
           /\ mirror' = IF o.ok
                        THEN [mirror EXCEPT ![o.name].data = Truncated(@, size),
                                            ![o.name].mtime = "now"]
                        ELSE mirror
    /\ UNCHANGED <<eager, handles, tmpfiles>>

sfs_truncate(path, size, tenv) ==
    /\ Dispatch
    /\ LET relative == relative_path(path)
           st == fstatat(mirror, relative, TRUE)
           classify == st.code = 0 /\ S_ISREG(st.st_mode)
           gs == Classify(classify, relative, tenv)
           script == classify /\ gs.res # 0
           \* uint64_t fd = openat(...): a failed open is never seen as fd < 0,
           \* so ftruncate and close act on descriptor -1 and fail with EBADF
           o == openat(mirror, relative, O_WRONLY)
           code == IF script THEN -EACCES ELSE IF o.ok THEN 0 ELSE -EBADF
           r0 == Reply("truncate", path, size, code)
       IN  /\ ret' = IF classify THEN Classified(r0, gs, tenv) ELSE r0
           /\ procs' = gs.procs
           /\ fdtab' = gs.fdtab
           /\ mirror' = IF ~script /\ o.ok
                        THEN [mirror EXCEPT ![o.name].data = Truncated(@, size),
                                            ![o.name].mtime = "now"]
                        ELSE mirror
    /\ UNCHANGED <<eager, handles, tmpfiles>>

\* utimensat(persistent.mirror_fd, name, ts, 0)
utimensat(m, name, ts) ==
    LET e == Resolve(m, name, TRUE) IN
    IF e = "" THEN [code |-> -1, errno |-> ENOENT, mirror |-> m]
    ELSE [code |-> 0, errno |-> 0,
          mirror |-> [m EXCEPT ![e].atime = ts[1], ![e].mtime = ts[2]]]

sfs_utimens(path, ts, tenv) ==
    /\ Dispatch
    /\ LET relative == relative_path(path)
           st == fstatat(mirror, relative, TRUE)
           classify == st.code = 0 /\ S_ISREG(st.st_mode)
           gs == Classify(classify, relative, tenv)
           script == classify /\ gs.res # 0
           ut == utimensat(mirror, relative, ts)
           code == IF script THEN -EACCES ELSE IF ut.code = 0 THEN 0 ELSE -ut.errno
           r0 == Reply("utimens", path, 0, code)
       IN  /\ ret' = IF classify THEN Classified(r0, gs, tenv) ELSE r0
           /\ procs' = gs.procs
           /\ fdtab' = gs.fdtab
           /\ mirror' = IF script THEN mirror ELSE ut.mirror
    /\ UNCHANGED <<eager, handles, tmpfiles>>

----------------------------------------------------------------------------
(* File callbacks *)

SEEK_SET == 0
SEEK_CUR == 1
SEEK_END == 2
EINVAL == 22

ReadSizes == {2, 8}
ReadOffsets == {0, 1, 5}
Seeks == {<<1, SEEK_SET>>, <<0, SEEK_END>>, <<-1, SEEK_CUR>>}

\* the bytes behind a descriptor
FileData(m, fds, fd) ==
    IF fds[fd].kind = "mirror" THEN m[fds[fd].name].data ELSE fds[fd].data

\* Variant: every whence is taken as SEEK_CUR.
lseek_cur(m, fds, fd, off, whence) ==
    IF fds[fd].pos + off < 0 THEN [res |-> -1, errno |-> EINVAL, pos |-> fds[fd].pos]
    ELSE [res |-> fds[fd].pos + off, errno |-> 0, pos |-> fds[fd].pos + off]

\* lseek(fd, off, whence): the new offset, or -1 with EINVAL
lseek(m, fds, fd, off, whence) ==
    LET base == IF whence = SEEK_SET THEN 0
                ELSE IF whence = SEEK_CUR THEN fds[fd].pos
                ELSE Len(FileData(m, fds, fd))
    IN  IF base + off < 0 THEN [res |-> -1, errno |-> EINVAL, pos |-> fds[fd].pos]
        ELSE [res |-> base + off, errno |-> 0, pos |-> base + off]

\* Variant: read that always starts at the first byte of the file.
read_head(m, fds, fd, pos, size) ==
    [num |-> Len(Slice(FileData(m, fds, fd), 0, size)), errno |-> 0,
     buf |-> Slice(FileData(m, fds, fd), 0, size)]

\* read(fd, buf, size) at the descriptor's offset
read(m, fds, fd, pos, size) ==
    IF fds[fd].kind = "mirror" /\ S_ISDIR(m[fds[fd].name].mode)
    THEN [num |-> -1, errno |-> EISDIR, buf |-> ""]
    ELSE IF AccMode(fds[fd].acc) = O_WRONLY
    THEN [num |-> -1, errno |-> EBADF, buf |-> ""]
    ELSE LET buf == Slice(FileData(m, fds, fd), pos, size)
         IN  [num |-> Len(buf), errno |-> 0, buf |-> buf]

\* Variant: only O_WRONLY is tested.
WriteFlags_wronly(flags) == Bit(flags, O_WRONLY) # 0

\* (fi->flags & O_WRONLY)!=0 || (fi->flags & O_RDWR)!=0
WriteFlags(flags) == Bit(flags, O_WRONLY) # 0 \/ Bit(flags, O_RDWR) # 0

sfs_open(path, flags, tenv, env) ==
    /\ Dispatch
    /\ Cardinality(DOMAIN handles) < MaxOps
    /\ \E relative \in {relative_path(path)} :
       \E gs \in {get_script(procs, relative, mirror, fdtab, tenv)} :
       \E run \in {IF gs.res # 0 /\ ~WriteFlags(flags)
                   THEN run_script(relative, gs.res, gs.procs, mirror, gs.fdtab, tmpfiles, env)
                   ELSE NoRun(gs.procs, gs.fdtab, tmpfiles)} :
       \E o \in {openat(mirror, relative, flags)} :
       \E fs \in {NewPtr(handles)} :
       LET script == gs.res # 0
           denied == script /\ WriteFlags(flags)
           handle == IF script THEN run.handle
                     ELSE IF o.ok THEN NewFd(gs.fdtab) ELSE -1
           code == IF denied THEN -EACCES
                   ELSE IF script /\ handle <= 0 THEN handle
                   ELSE IF ~script /\ handle <= 0 THEN -o.errno
                   ELSE 0
           r0 == Ran(Classified(Reply("open", path, flags, code), gs, tenv), run)
       IN  /\ ret' = [r0 EXCEPT !.fh = IF code = 0 THEN fs ELSE 0]
           /\ procs' = run.procs
           /\ tmpfiles' = run.tmps
           /\ fdtab' = IF script /\ ~denied /\ code # 0 THEN gs.fdtab
                       ELSE IF script /\ ~denied THEN run.fdtab
                       ELSE IF code # 0 THEN gs.fdtab
                       ELSE gs.fdtab @@ (handle :> [kind |-> "mirror", name |-> o.name,
                                                    data |-> "", pos |-> 0, acc |-> flags])
           /\ handles' = IF code # 0 THEN handles
                         ELSE handles @@ (fs :> [type |-> IF script THEN "T_SCRIPT" ELSE "T_FILE",
                                                 file_handle |-> handle,
                                                 filename |-> relative])
    /\ UNCHANGED <<mirror, eager>>

\* fi->fh of a request on an open file: a live FileStruct, or 0
FileHandles == DOMAIN handles \cup {0}

sfs_read(fh, size, offset) ==
    /\ Dispatch
    /\ LET bad == fh = 0
           isdir == ~bad /\ handles[fh].type = "T_FOLDER"
           fd == handles[fh].file_handle
           sk == lseek(mirror, fdtab, fd, offset, SEEK_SET)
           rd == read(mirror, fdtab, fd, sk.pos, size)
           code == IF bad THEN -EBADF
                   ELSE IF isdir THEN -EISDIR
                   ELSE IF sk.res < 0 THEN -sk.errno
                   ELSE IF rd.num >= 0 THEN rd.num ELSE -rd.errno
       IN  /\ ret' = [Reply("read", "", offset, code)
                        EXCEPT !.fh = fh, !.st_size = size,
                               !.data = IF bad \/ isdir \/ sk.res < 0 THEN "" ELSE rd.buf]
           /\ fdtab' = IF bad \/ isdir THEN fdtab
                       ELSE [fdtab EXCEPT ![fd].pos =
                                IF rd.num >= 0 THEN sk.pos + rd.num ELSE sk.pos]
    /\ UNCHANGED <<mirror, procs, eager, handles, tmpfiles>>

sfs_lseek(fh, off, whence) ==
    /\ Dispatch
    /\ LET bad == fh = 0
           isdir == ~bad /\ handles[fh].type = "T_FOLDER"
           fd == handles[fh].file_handle
           sk == lseek(mirror, fdtab, fd, off, whence)
           code == IF bad THEN -EBADF
                   ELSE IF isdir THEN -EISDIR
                   ELSE IF sk.res < 0 THEN -sk.errno
                   ELSE 0
       IN  /\ ret' = [Reply("lseek", "", off, code) EXCEPT !.fh = fh, !.st_size = whence]
           /\ fdtab' = IF bad \/ isdir THEN fdtab ELSE [fdtab EXCEPT ![fd].pos = sk.pos]
    /\ UNCHANGED <<mirror, procs, eager, handles, tmpfiles>>

sfs_flush(fh) ==
    /\ Dispatch
    /\ LET bad == fh = 0
           code == IF bad THEN -EBADF
                   ELSE IF handles[fh].type = "T_FOLDER" THEN -EISDIR
                   ELSE 0
       IN  ret' = [Reply("flush", "", 0, code) EXCEPT !.fh = fh]
    /\ UNCHANGED <<mirror, procs, eager, fdtab, handles, tmpfiles>>

\* Variant: the type of the handle is not looked at, a directory stream is
\* closed as a file is.
sfs_release_any(fh) ==
    /\ Dispatch
    /\ LET bad == fh = 0
           fd == IF handles[fh].type = "T_FOLDER" THEN handles[fh].dir_handle
                 ELSE handles[fh].file_handle
       IN  /\ ret' = [Reply("release", "", 0, IF bad THEN -EBADF ELSE 0) EXCEPT !.fh = fh]
           /\ fdtab' = IF bad THEN fdtab ELSE close(fdtab, fd)
           /\ handles' = IF bad THEN handles
                         ELSE [h \in DOMAIN handles \ {fh} |-> handles[h]]
    /\ UNCHANGED <<mirror, procs, eager, tmpfiles>>

sfs_release(fh) ==
    /\ Dispatch
    /\ LET bad == fh = 0
           isdir == ~bad /\ handles[fh].type = "T_FOLDER"
           code == IF bad THEN -EBADF ELSE IF isdir THEN -EISDIR ELSE 0
       IN  /\ ret' = [Reply("release", "", 0, code) EXCEPT !.fh = fh]
           /\ fdtab' = IF bad \/ isdir THEN fdtab ELSE close(fdtab, handles[fh].file_handle)
           /\ handles' = IF bad \/ isdir THEN handles
                         ELSE [h \in DOMAIN handles \ {fh} |-> handles[h]]
    /\ UNCHANGED <<mirror, procs, eager, tmpfiles>>

WriteOffsets == {1, 7}
WriteBufs == {"xy"}
\* 0644, with the type bits the kernel passes along
CreateModes == {S_IFREG + 420}

\* Variant: the bytes are appended whatever the offset.
Written_append(data, pos, buf) == data \o buf

\* the bytes of a file after size bytes of buf were written at offset pos;
\* a gap between the end of the file and pos reads as zero bytes
Written(data, pos, buf) ==
    LET padded == IF pos > Len(data) THEN data \o Zeros(pos - Len(data)) ELSE data
    IN  SubSeq(padded, 1, pos) \o buf \o SubSeq(padded, pos + Len(buf) + 1, Len(padded))

\* write(fd, buf, size) at the descriptor's offset: the count written and the
\* bytes behind the descriptor afterwards
write(m, fds, fd, pos, buf) ==
    IF AccMode(fds[fd].acc) = O_RDONLY
    THEN [num |-> -1, errno |-> EBADF, data |-> FileData(m, fds, fd)]
    ELSE [num |-> Len(buf), errno |-> 0, data |-> Written(FileData(m, fds, fd), pos, buf)]

\* the descriptor table after the bytes behind a descriptor that has no name
\* in the mirror were replaced
Stored(fds, fd, data) ==
    IF fds[fd].kind = "unlinked"
    THEN [g \in DOMAIN fds |->
             IF fds[g].kind = "unlinked" /\ fds[g].ino = fds[fd].ino
             THEN [fds[g] EXCEPT !.data = data] ELSE fds[g]]
    ELSE [fds EXCEPT ![fd].data = data]

sfs_write(fh, buf, offset) ==
    /\ Dispatch
    /\ LET bad == fh = 0
           isdir == ~bad /\ handles[fh].type = "T_FOLDER"
           fd == handles[fh].file_handle
           sk == lseek(mirror, fdtab, fd, offset, SEEK_SET)
           wr == write(mirror, fdtab, fd, sk.pos, buf)
           done == ~bad /\ ~isdir /\ sk.res >= 0 /\ wr.num >= 0
           code == IF bad THEN -EBADF
                   ELSE IF isdir THEN -EISDIR
                   ELSE IF sk.res < 0 THEN -sk.errno
                   ELSE IF wr.num >= 0 THEN wr.num ELSE -wr.errno
       IN  /\ ret' = [Reply("write", "", offset, code) EXCEPT !.fh = fh, !.data = buf]
           /\ fdtab' = IF bad \/ isdir THEN fdtab
                       ELSE IF ~done THEN [fdtab EXCEPT ![fd].pos = sk.pos]
                       ELSE IF fdtab[fd].kind = "mirror"
                       THEN [fdtab EXCEPT ![fd].pos = sk.pos + wr.num]
                       ELSE Stored([fdtab EXCEPT ![fd].pos = sk.pos + wr.num], fd, wr.data)
           /\ mirror' = IF done /\ fdtab[fd].kind = "mirror"
                        THEN [mirror EXCEPT ![fdtab[fd].name].data = wr.data,
                                            ![fdtab[fd].name].mtime = "now"]
                        ELSE mirror
    /\ UNCHANGED <<procs, eager, handles, tmpfiles>>

\* openat(persistent.mirror_fd, name, O_CREAT | O_WRONLY | O_TRUNC, mode): an
\* existing file is emptied, a missing one is created (through a dangling
\* symbolic link too) when the directory may be written
openat_creat(m, name, mode) ==
    LET e == Resolve(m, name, TRUE)
        n == IF Exists(m, name) /\ S_ISLNK(m[name].mode) THEN m[name].data ELSE name
    IN  IF e # ""
        THEN IF S_ISDIR(m[e].mode) THEN [ok |-> FALSE, errno |-> EISDIR, name |-> "", mirror |-> m]
             ELSE IF ~MayAccess(m[e].mode, W_OK)
                  THEN [ok |-> FALSE, errno |-> EACCES, name |-> "", mirror |-> m]
             ELSE [ok |-> TRUE, errno |-> 0, name |-> e,
                   mirror |-> [m EXCEPT ![e].data = "", ![e].mtime = "now"]]
        ELSE IF n \notin DOMAIN m \/ Exists(m, n)
             THEN [ok |-> FALSE, errno |-> ENOENT, name |-> "", mirror |-> m]
        ELSE IF ~MayAccess(m["."].mode, W_OK + X_OK)
             THEN [ok |-> FALSE, errno |-> EACCES, name |-> "", mirror |-> m]
        ELSE [ok |-> TRUE, errno |-> 0, name |-> n,
              mirror |-> [m EXCEPT ![n] = [mode |-> S_IFREG + Perms(mode), data |-> "",
                                           atime |-> "now", mtime |-> "now"]]]

sfs_create(path, mode) ==
    /\ Dispatch
    /\ Cardinality(DOMAIN handles) < MaxOps
    /\ LET relative == relative_path(path)
           o == openat_creat(mirror, relative, mode)
           handle == IF o.ok THEN NewFd(fdtab) ELSE -1
           fs == NewPtr(handles)
           code == IF handle <= 0 THEN -o.errno ELSE 0
       IN  /\ ret' = [Reply("create", path, mode, code) EXCEPT !.fh = IF code = 0 THEN fs ELSE 0]
           /\ mirror' = o.mirror
           /\ fdtab' = IF code # 0 THEN fdtab
                       ELSE fdtab @@ (handle :> [kind |-> "mirror", name |-> o.name, data |-> "",
                                                 pos |-> 0,
                                                 acc |-> O_CREAT + O_WRONLY + O_TRUNC])
           /\ handles' = IF code # 0 THEN handles
                         ELSE handles @@ (fs :> [type |-> "T_FILE", file_handle |-> handle,
                                                 filename |-> relative])
    /\ UNCHANGED <<procs, eager, tmpfiles>>

----------------------------------------------------------------------------
(* Directory and link callbacks *)

ENOTDIR == 20
AT_REMOVEDIR == 512

ReadlinkSizes == {2, 8}

\* a file that lost its last name lives on while descriptors are open on it:
\* they keep its bytes under a number of their own
Unlinked(m, fds, name) ==
    LET inos == { fds[g].ino : g \in { h \in DOMAIN fds : fds[h].kind = "unlinked" } }
        ino == IF inos = {} THEN 1 ELSE 1 + (CHOOSE i \in inos : \A j \in inos : j <= i)
    IN  [g \in DOMAIN fds |->
            IF fds[g].kind = "mirror" /\ fds[g].name = name
            THEN [kind |-> "unlinked", name |-> name, data |-> m[name].data,
                  pos |-> fds[g].pos, acc |-> fds[g].acc, ino |-> ino]
            ELSE fds[g]]

\* unlinkat(persistent.mirror_fd, name, flags)
unlinkat(m, fds, name, flags) ==
    LET fail(e) == [code |-> -1, errno |-> e, mirror |-> m, fdtab |-> fds]
        removed == [code |-> 0, errno |-> 0, mirror |-> [m EXCEPT ![name] = NoEntry],
                    fdtab |-> Unlinked(m, fds, name)]
    IN  IF ~Exists(m, name) THEN fail(ENOENT)
        ELSE IF flags = AT_REMOVEDIR
        THEN (IF ~S_ISDIR(m[name].mode) THEN fail(ENOTDIR)
              ELSE IF name = "." THEN fail(EINVAL)
              ELSE removed)
        ELSE IF S_ISDIR(m[name].mode) THEN fail(EISDIR)
        ELSE IF ~MayAccess(m["."].mode, W_OK + X_OK) THEN fail(EACCES)
        ELSE removed

sfs_unlink(path) ==
    /\ Dispatch
    /\ LET u == unlinkat(mirror, fdtab, relative_path(path), 0)
       IN  /\ ret' = Reply("unlink", path, 0, IF u.code = 0 THEN 0 ELSE -u.errno)
           /\ mirror' = u.mirror
           /\ fdtab' = u.fdtab
    /\ UNCHANGED <<procs, eager, handles, tmpfiles>>

sfs_rmdir(path) ==
    /\ Dispatch
    /\ LET u == unlinkat(mirror, fdtab, relative_path(path), AT_REMOVEDIR)
       IN  /\ ret' = Reply("rmdir", path, 0, IF u.code = 0 THEN 0 ELSE -u.errno)
           /\ mirror' = u.mirror
           /\ fdtab' = u.fdtab
    /\ UNCHANGED <<procs, eager, handles, tmpfiles>>

\* readlinkat(persistent.mirror_fd, name, buf, bufsiz): the count of bytes
\* placed in buf, which is not terminated
readlinkat(m, name, bufsiz) ==
    IF ~Exists(m, name) THEN [length |-> -1, errno |-> ENOENT, buf |-> ""]
    ELSE IF ~S_ISLNK(m[name].mode) THEN [length |-> -1, errno |-> EINVAL, buf |-> ""]
    ELSE [length |-> Min(Len(m[name].data), bufsiz), errno |-> 0,
          buf |-> SubSeq(m[name].data, 1, Min(Len(m[name].data), bufsiz))]

sfs_readlink(path, size) ==
    /\ Dispatch
    /\ LET rl == readlinkat(mirror, relative_path(path), size - 1)
       IN  ret' = [Reply("readlink", path, size, IF rl.length < 0 THEN -rl.errno ELSE 0)
                     EXCEPT !.data = rl.buf]
    /\ UNCHANGED <<mirror, procs, eager, fdtab, handles, tmpfiles>>

EEXIST == 17

\* what a symbolic link is asked to hold, and where it is asked for
SymlinkTargets == {"a", "/n", "/b"}
LinkPaths == {"/n", "/b"}

\* symlinkat(target, persistent.mirror_fd, linkpath): a symbolic link holding
\* target is made under the name linkpath
symlinkat(m, target, linkpath) ==
    IF linkpath = "" \/ linkpath \notin DOMAIN m THEN [code |-> -1, errno |-> ENOENT, mirror |-> m]
    ELSE IF Exists(m, linkpath) THEN [code |-> -1, errno |-> EEXIST, mirror |-> m]
    ELSE IF ~MayAccess(m["."].mode, W_OK + X_OK)
    THEN [code |-> -1, errno |-> EACCES, mirror |-> m]
    ELSE [code |-> 0, errno |-> 0,
          mirror |-> [m EXCEPT ![linkpath] = [mode |-> S_IFLNK + 511, data |-> target,
                                              atime |-> "now", mtime |-> "now"]]]

\* FUSE calls the handler with the content of the link first and the path of
\* the link second; the handler names them `to` and `from`
sfs_symlink(to, from) ==
    /\ Dispatch
    /\ LET relative == relative_path(to)
           sl == symlinkat(mirror, from, relative)
       IN  /\ ret' = [Reply("symlink", from, 0, IF sl.code = 0 THEN 0 ELSE -sl.errno)
                        EXCEPT !.data = to]
           /\ mirror' = sl.mirror
    /\ UNCHANGED <<procs, eager, fdtab, handles, tmpfiles>>

\* the descriptor opened on the path stays open when fdopendir refuses it
sfs_opendir(path) ==
    /\ Dispatch
    /\ Cardinality(DOMAIN handles) < MaxOps
    /\ LET relative == relative_path(path)
           o == openat(mirror, relative, O_RDONLY)
           fd == NewFd(fdtab)
           isdir == o.ok /\ S_ISDIR(mirror[o.name].mode)
           fs == NewPtr(handles)
           code == IF ~o.ok THEN -o.errno ELSE IF ~isdir THEN -ENOTDIR ELSE 0
       IN  /\ ret' = [Reply("opendir", path, 0, code) EXCEPT !.fh = IF code = 0 THEN fs ELSE 0]
           /\ fdtab' = IF ~o.ok THEN fdtab
                       ELSE fdtab @@ (fd :> [kind |-> "mirror", name |-> o.name, data |-> "",
                                             pos |-> 0, acc |-> O_RDONLY])
           /\ handles' = IF code # 0 THEN handles
                         ELSE handles @@ (fs :> [type |-> "T_FOLDER", dir_handle |-> fd,
                                                 filename |-> relative])
    /\ UNCHANGED <<mirror, procs, eager, tmpfiles>>

\* the names readdir has not yet returned from a directory stream
Entries(m, fds, fd) ==
    IF fds[fd].pos # 0 THEN {}
    ELSE {".", ".."} \cup { n \in Names \ {"."} : Exists(m, n) }

sfs_readdir(fh) ==
    /\ Dispatch
    /\ LET bad == fh = 0
           notdir == ~bad /\ handles[fh].type # "T_FOLDER"
           fd == handles[fh].dir_handle
           code == IF bad THEN -EBADF ELSE IF notdir THEN -ENOTDIR ELSE 0
       IN  /\ ret' = [Reply("readdir", "", 0, code)
                        EXCEPT !.fh = fh,
                               !.entries = IF bad \/ notdir THEN {}
                                           ELSE Entries(mirror, fdtab, fd)]
           /\ fdtab' = IF bad \/ notdir THEN fdtab ELSE [fdtab EXCEPT ![fd].pos = 1]
    /\ UNCHANGED <<mirror, procs, eager, handles, tmpfiles>>

sfs_releasedir(fh) ==
    /\ Dispatch
    /\ LET bad == fh = 0
           notdir == ~bad /\ handles[fh].type # "T_FOLDER"
           code == IF bad THEN -EBADF ELSE IF notdir THEN -ENOTDIR ELSE 0
       IN  /\ ret' = [Reply("releasedir", "", 0, code) EXCEPT !.fh = fh]
           /\ fdtab' = IF bad \/ notdir THEN fdtab ELSE close(fdtab, handles[fh].dir_handle)
           /\ handles' = IF bad \/ notdir THEN handles
                         ELSE [h \in DOMAIN handles \ {fh} |-> handles[h]]
    /\ UNCHANGED <<mirror, procs, eager, tmpfiles>>

sfs_fsync(fh) ==
    /\ Dispatch
    /\ LET bad == fh = 0
           code == IF bad THEN -EBADF
                   ELSE IF handles[fh].type = "T_FOLDER" THEN -EISDIR
                   ELSE 0
       IN  ret' = [Reply("fsync", "", 0, code) EXCEPT !.fh = fh]
    /\ UNCHANGED <<mirror, procs, eager, fdtab, handles, tmpfiles>>

----------------------------------------------------------------------------
(* The mirror folder stays an ordinary directory: other processes may      *)
(* change its files without going through the mount.                       *)

MirrorEdits == {<<"b", 1, "xy">>}

mirror_pwrite(name, offset, buf) ==
    /\ ret.op = "idle"
    /\ nedits < MaxEdits
    /\ Exists(mirror, name)
    /\ S_ISREG(mirror[name].mode)
    /\ nedits' = nedits + 1
    /\ mirror' = [mirror EXCEPT ![name].data = Written(@, offset, buf), ![name].mtime = "now"]
    /\ UNCHANGED <<procs, eager, fdtab, handles, tmpfiles, ret, pre, nops, mtvars, pipe>>

----------------------------------------------------------------------------
(* The mounted filesystem *)

Mirror0 ==
    [n \in Names |->
        CASE n = "." -> [NoEntry EXCEPT !.mode = S_IFDIR + 493]
          [] n = "a" -> [NoEntry EXCEPT !.mode = S_IFREG + 509, !.data = "#!/i\nq"]
          [] n = "b" -> [NoEntry EXCEPT !.mode = S_IFREG + 436, !.data = "ABCDE"]
          [] n = "l" -> [NoEntry EXCEPT !.mode = S_IFLNK + 511, !.data = "a"]
          [] OTHER -> NoEntry]

Init ==
    /\ mirror = Mirror0
    /\ procs \in Mounts
    /\ eager \in BOOLEAN
    /\ fdtab = <<>>
    /\ handles = <<>>
    /\ tmpfiles = {}
    /\ ret = Idle
    /\ pre = NoPre
    /\ nops = 0
    /\ nedits = 0
    /\ threads = <<>>
    /\ children = <<>>
    /\ heap = {}
    /\ shm = <<>>
    /\ nruns = 0
    /\ pipe = <<>>

\* The entries of sfs_oper: FUSE calls the handler with the arguments of the
\* request; the environment picks what the children and mkstemp do.
op_getattr ==
    /\ ret.op = "idle"
    /\ \E path \in VPaths, tenv \in TestEnvs(procs),
          env \in (IF eager THEN RunEnvs ELSE {NoRunEnv}) : sfs_getattr(path, tenv, env)

op_access ==
    /\ ret.op = "idle"
    /\ \E path \in VPaths, tenv \in TestEnvs(procs), mask \in AccessMasks :
          sfs_access(path, mask, tenv)

op_chmod ==
    /\ ret.op = "idle"
    /\ \E path \in VPaths, tenv \in TestEnvs(procs), mode \in ChmodModes :
          sfs_chmod(path, mode, tenv)

op_truncate ==
    /\ ret.op = "idle"
    /\ \E path \in VPaths, tenv \in TestEnvs(procs), size \in TruncateSizes :
          sfs_truncate(path, size, tenv)

op_utimens ==
    /\ ret.op = "idle"
    /\ \E path \in VPaths, tenv \in TestEnvs(procs), ts \in TimeSpecs :
          sfs_utimens(path, ts, tenv)

op_open ==
    /\ ret.op = "idle"
    /\ \E path \in VPaths, tenv \in TestEnvs(procs), flags \in OpenFlags :
          \E env \in (IF WriteFlags(flags) THEN {NoRunEnv} ELSE RunEnvs) :
             sfs_open(path, flags, tenv, env)

op_read ==
    /\ ret.op = "idle"
    /\ \E fh \in FileHandles, size \in ReadSizes, offset \in ReadOffsets :
          sfs_read(fh, size, offset)

op_lseek ==
    /\ ret.op = "idle"
    /\ \E fh \in FileHandles, sk \in Seeks : sfs_lseek(fh, sk[1], sk[2])

op_flush == ret.op = "idle" /\ \E fh \in FileHandles : sfs_flush(fh)

op_release == ret.op = "idle" /\ \E fh \in FileHandles : sfs_release(fh)

op_write ==
    /\ ret.op = "idle"
    /\ \E fh \in FileHandles, buf \in WriteBufs, offset \in WriteOffsets :
          sfs_write(fh, buf, offset)

op_create ==
    /\ ret.op = "idle"
    /\ \E path \in VPaths, mode \in CreateModes : sfs_create(path, mode)

op_unlink == ret.op = "idle" /\ \E path \in VPaths : sfs_unlink(path)

op_rmdir == ret.op = "idle" /\ \E path \in VPaths : sfs_rmdir(path)

op_readlink ==
    /\ ret.op = "idle"
    /\ \E path \in VPaths, size \in ReadlinkSizes : sfs_readlink(path, size)

op_symlink ==
    /\ ret.op = "idle"
    /\ \E target \in SymlinkTargets, linkpath \in LinkPaths : sfs_symlink(target, linkpath)

op_opendir == ret.op = "idle" /\ \E path \in VPaths : sfs_opendir(path)

op_readdir == ret.op = "idle" /\ \E fh \in FileHandles : sfs_readdir(fh)

op_releasedir == ret.op = "idle" /\ \E fh \in FileHandles : sfs_releasedir(fh)

op_fsync == ret.op = "idle" /\ \E fh \in FileHandles : sfs_fsync(fh)

\* a process other than the server writes into a file of the mirror
mirror_edit == \E e \in MirrorEdits : mirror_pwrite(e[1], e[2], e[3])

Next ==
    \/ fuse_reply
    \/ op_getattr
    \/ op_access
    \/ op_chmod
    \/ op_truncate
    \/ op_utimens
    \/ op_open
    \/ op_read
    \/ op_lseek
    \/ op_flush
    \/ op_release
    \/ op_write
    \/ op_create
    \/ op_unlink
    \/ op_rmdir
    \/ op_readlink
    \/ op_symlink
    \/ op_opendir
    \/ op_readdir
    \/ op_releasedir
    \/ op_fsync
    \/ mirror_edit

Spec == Init /\ [][Next]_vars

----------------------------------------------------------------------------
(* The server with worker threads.  fuse_main runs the multi-threaded loop *)
(* unless -s is given: every request is handled by a thread of its own,    *)
(* and the handlers share persistent.procs, the descriptors and the files  *)
(* in the temporary directory.  A handler is cut into one step per access  *)
(* to shared memory and per system call; a step is atomic.  Reading memory *)
(* that was freed gives the old bytes or something else; freeing it again  *)
(* goes unnoticed or makes the allocator abort the server.                 *)
(*                                                                         *)
(* The external program p of this mount prints the file its argument      *)
(* names and exits with 0 when the argument names a temporary file or an   *)
(* entry of the mirror, with 1 otherwise; a script run by the auto program *)
(* prints its own text.  mkstemp and fork succeed.                         *)

Threads == {1, 2}
MaxReqs == 3
MaxRuns == 2

MountsMT == {ProcsAuto, ProcsSame}
PathsMT == {"/a", "/b"}
ReadSizeMT == 2
ReadOffsetsMT == {0, 3}

\* a thread that handles no request.  Fields: the request (op, path, fh,
\* offset, n its number), the locals of the handler it is in (file, i, res,
\* match, handle, tmpfil, pid, v), what it replies (code, data) and what
\* it did on the way (copy, tests, prog, closed)
IdleThread ==
    [pc |-> "idle", op |-> "", path |-> "", fh |-> 0, offset |-> 0, n |-> 0,
     file |-> "", i |-> 0, res |-> 0, match |-> FALSE, handle |-> 0, tmpfil |-> NULL,
     pid |-> 0, v |-> NULL, code |-> 0, data |-> "",
     copy |-> NULL, tests |-> <<>>, prog |-> 0,
     closed |-> [fd |-> 0, before |-> <<>>, after |-> <<>>]]

\* a request from the kernel goes to a worker that is idle; the workers are
\* alike, so it is the first of them
Accept(t, op, path, fh, offset) ==
    /\ threads[t].pc = "idle"
    /\ \A u \in Threads : u < t => threads[u].pc # "idle"
    /\ nops < MaxReqs
    /\ nops' = nops + 1
    /\ UNCHANGED <<mirror, eager, ret, pre, nedits, pipe>>

\* the argv a child gets: the vector up to its first null pointer
RECURSIVE Terminated(_)
Terminated(args) ==
    IF args = <<>> \/ Head(args) = NULL THEN <<>>
    ELSE <<Head(args)>> \o Terminated(Tail(args))

\* what a read of the string a slot points to can give
Deref(s) == IF s \in heap THEN {s, "?"} ELSE {s}

\* fork(): a new process with the memory of the server as it is now
NewPid ==
    CHOOSE p \in 1..(1 + Cardinality(DOMAIN children)) :
        p \notin DOMAIN children /\ \A q \in 1..(p - 1) : q \in DOMAIN children

fork(t, kind, argv, filearg, out) ==
    children @@ (NewPid :> [parent |-> t, req |-> threads[t].n, kind |-> kind,
                            argv |-> argv, fd |-> out, state |-> "running",
                            file |-> IF filearg \in 1..Len(argv) THEN argv[filearg] ELSE NULL,
                            exited |-> TRUE, status |-> 0, out |-> ""])

\* Variant: waitpid with WNOHANG.
waitpid_nohang(child) == TRUE

\* waitpid(child, &code, 0) returns when the child has terminated
waitpid(child) == child.state = "zombie"

\* the file a child was given as its argument, as the child finds it
ChildFile(file) ==
    IF file \in tmpfiles THEN [found |-> TRUE, data |-> shm[file].data]
    ELSE [found |-> file # NULL /\ Exists(mirror, file), data |-> ""]

\* a child runs to its end: a program writes into the artifact it has as
\* standard output, then the process is a zombie until it is waited for
child_exit(pid) ==
    /\ children[pid].state = "running"
    /\ LET ch == children[pid]
           f == ChildFile(ch.file)
       IN  /\ children' = [children EXCEPT ![pid].state = "zombie",
                                           ![pid].status = IF f.found THEN 0 ELSE 1,
                                           ![pid].out = f.data]
           /\ fdtab' = IF ch.fd # 0 /\ ch.fd \in DOMAIN fdtab
                       THEN [fdtab EXCEPT ![ch.fd].data = f.data, ![ch.fd].pos = Len(f.data)]
                       ELSE fdtab
    /\ UNCHANGED <<mirror, procs, eager, handles, tmpfiles, ret, pre, nops, nruns, nedits,
                   threads, heap, shm, pipe>>

(* sfs_open and sfs_getattr up to the classification *)

\* while (res==0 && procs!=0) from procedure th.i on, up to the first test
\* that forks a child; after the loop the handler goes on with the result
RECURSIVE get_script_from(_)
get_script_from(th) ==
    IF ~(th.res = 0 /\ th.i <= Len(procs))
    THEN [th EXCEPT !.pc = IF th.op = "open"
                           THEN (IF th.res # 0 THEN "run_script" ELSE "openat")
                           ELSE IF th.res # 0 /\ eager THEN "run_script"
                           ELSE "reply"]
    ELSE IF procs[th.i].test.func = "none" THEN get_script_from([th EXCEPT !.i = th.i + 1])
    ELSE IF procs[th.i].test.func = "test_program" THEN [th EXCEPT !.pc = "test_program"]
    ELSE get_script_from(
            [th EXCEPT !.i = th.i + 1,
                       !.res = IF CallTest(procs[th.i].test, th.file, mirror, fdtab,
                                           NoChild).match
                               THEN th.i ELSE 0])

sfs_open_mt(t, path) ==
    /\ Accept(t, "open", path, 0, 0)
    /\ nruns < MaxRuns
    /\ nruns' = nruns + 1
    /\ threads' = [threads EXCEPT ![t] =
                      get_script_from([IdleThread EXCEPT !.op = "open", !.path = path,
                                                         !.n = nops + 1,
                                                         !.file = relative_path(path),
                                                         !.i = 1])]
    /\ UNCHANGED <<procs, fdtab, handles, tmpfiles, children, heap, shm>>

sfs_getattr_mt(t, path) ==
    /\ Accept(t, "getattr", path, 0, 0)
    /\ nruns < MaxRuns
    /\ nruns' = nruns + 1
    /\ LET st == fstatat(mirror, relative_path(path), FALSE)
           r == [IdleThread EXCEPT !.op = "getattr", !.path = path, !.n = nops + 1,
                                   !.file = relative_path(path), !.i = 1,
                                   !.code = IF st.code = 0 THEN 0 ELSE -st.errno]
       IN  threads' = [threads EXCEPT ![t] =
                          IF st.code = 0 /\ S_ISREG(st.st_mode) THEN get_script_from(r)
                          ELSE [r EXCEPT !.pc = "reply"]]
    /\ UNCHANGED <<procs, fdtab, handles, tmpfiles, children, heap, shm>>

\* *(test->filearg)=(char*)file
test_program_filearg(t) ==
    /\ threads[t].pc = "test_program"
    /\ LET th == threads[t]
           test == procs[th.i].test
       IN  procs' = IF test.args # <<>> /\ test.filearg # 0
                    THEN [procs EXCEPT ![th.i].test.args[test.filearg] = th.file]
                    ELSE procs
    /\ threads' = [threads EXCEPT ![t].pc = "test_fork"]
    /\ UNCHANGED <<mirror, eager, fdtab, handles, tmpfiles, ret, pre, nops, nruns, nedits,
                   children, heap, shm, pipe>>

\* execute_program(test->path, test->args, 0, f) up to the fork
test_program_fork(t) ==
    /\ threads[t].pc = "test_fork"
    /\ LET th == threads[t]
           test == procs[th.i].test
       IN  /\ children' = fork(t, "test", Terminated(test.args), test.filearg, 0)
           /\ threads' = [threads EXCEPT ![t].pc = "test_wait", ![t].pid = NewPid,
                                         ![t].tests = Append(th.tests, NewPid)]
    /\ UNCHANGED <<mirror, procs, eager, fdtab, handles, tmpfiles, ret, pre, nops, nruns, nedits,
                   heap, shm, pipe>>

\* waitpid in execute_program, and return (code==0)
test_program_wait(t) ==
    /\ threads[t].pc = "test_wait"
    /\ waitpid(children[threads[t].pid])
    /\ children' = [children EXCEPT ![threads[t].pid].state =
                       IF @ = "zombie" THEN "reaped" ELSE @]
    /\ threads' = [threads EXCEPT ![t].pc = "test_reset",
                                  ![t].match = execute_program(children[threads[t].pid]) = 0]
    /\ UNCHANGED <<mirror, procs, eager, fdtab, handles, tmpfiles, ret, pre, nops, nruns, nedits,
                   heap, shm, pipe>>

\* *(test->filearg) = strdup(""), and the assignment to res in get_script
test_program_reset(t) ==
    /\ threads[t].pc = "test_reset"
    /\ LET th == threads[t]
           test == procs[th.i].test
       IN  /\ procs' = IF test.args # <<>> /\ test.filearg # 0
                       THEN [procs EXCEPT ![th.i].test.args[test.filearg] = ""]
                       ELSE procs
           /\ threads' = [threads EXCEPT ![t] =
                             get_script_from([th EXCEPT !.i = th.i + 1,
                                                        !.res = IF th.match THEN th.i
                                                                ELSE 0])]
    /\ UNCHANGED <<mirror, eager, fdtab, handles, tmpfiles, ret, pre, nops, nruns, nedits,
                   children, heap, shm, pipe>>

(* run_script and the program functions *)

\* mkstemp(temp_filename) and unlink(temp_filename)
run_script_mkstemp(t) ==
    /\ threads[t].pc = "run_script"
    /\ fdtab' = fdtab @@ (NewFd(fdtab) :> Artifact(mkstemp(tmpfiles)))
    /\ threads' = [threads EXCEPT ![t].pc = "program", ![t].handle = NewFd(fdtab)]
    /\ UNCHANGED <<mirror, procs, eager, handles, tmpfiles, ret, pre, nops, nruns, nedits,
                   children, heap, shm, pipe>>

\* char *tmpfil=temp_copy(file) in program_shell;
\* *(program->filearg)=temp_copy(file) in program_external
program_temp_copy(t) ==
    /\ threads[t].pc = "program"
    /\ LET th == threads[t]
           program == procs[th.res].program
           shell == program.func = "program_shell"
           hasarg == program.args # <<>> /\ program.filearg # 0
           c == temp_copy(mirror, th.file, tmpfiles, [mkcopy |-> TRUE])
       IN  IF shell \/ hasarg
           THEN /\ tmpfiles' = tmpfiles \cup {c.name}
                /\ shm' = [n \in DOMAIN shm \cup {c.name} |->
                              IF n = c.name THEN [data |-> c.data, mode |-> c.mode]
                              ELSE shm[n]]
                /\ heap' = heap \ {c.name}
                /\ procs' = IF shell THEN procs
                            ELSE [procs EXCEPT ![th.res].program.args[program.filearg] = c.name]
                /\ threads' = [threads EXCEPT ![t].pc = "fork", ![t].copy = c.name,
                                              ![t].tmpfil = IF shell THEN c.name ELSE NULL]
           ELSE /\ threads' = [threads EXCEPT ![t].pc = "fork"]
                /\ UNCHANGED <<tmpfiles, shm, heap, procs>>
    /\ UNCHANGED <<mirror, eager, fdtab, handles, ret, pre, nops, nruns, nedits, children, pipe>>

\* execute_program(.., args, fd, f) up to the fork: the child gets the
\* argument vector as it is in memory at this moment
program_fork(t) ==
    /\ threads[t].pc = "fork"
    /\ LET th == threads[t]
           program == procs[th.res].program
       IN  \E args \in IF program.func = "program_shell" THEN {<<th.tmpfil>>}
                       ELSE IF program.filearg = 0 THEN {program.args}
                       ELSE {[program.args EXCEPT ![program.filearg] = s] :
                                s \in Deref(program.args[program.filearg])} :
              /\ children' = fork(t, "program", Terminated(args),
                                  IF program.func = "program_shell" THEN 1
                                  ELSE program.filearg, th.handle)
              /\ threads' = [threads EXCEPT ![t].pc = "wait", ![t].pid = NewPid,
                                            ![t].prog = NewPid]
    /\ UNCHANGED <<mirror, procs, eager, fdtab, handles, tmpfiles, ret, pre, nops, nruns, nedits,
                   heap, shm, pipe>>

\* waitpid(child, &code, 0) in execute_program
program_wait(t) ==
    /\ threads[t].pc = "wait"
    /\ waitpid(children[threads[t].pid])
    /\ children' = [children EXCEPT ![threads[t].pid].state =
                       IF @ = "zombie" THEN "reaped" ELSE @]
    /\ threads' = [threads EXCEPT ![t].pc = "unlink"]
    /\ UNCHANGED <<mirror, procs, eager, fdtab, handles, tmpfiles, ret, pre, nops, nruns, nedits,
                   heap, shm, pipe>>

\* unlink(tmpfil); free(tmpfil) in program_shell;
\* if (*(program->filearg)!=0) { unlink(..); free(..); } in program_external.
\* free() of a string that is free already: unnoticed, or abort()
program_unlink(t) ==
    /\ threads[t].pc = "unlink"
    /\ LET th == threads[t]
           program == procs[th.res].program
           shell == program.func = "program_shell"
           hasarg == program.args # <<>> /\ program.filearg # 0
           s == IF shell THEN th.tmpfil
                ELSE IF hasarg THEN program.args[program.filearg] ELSE NULL
       IN  /\ tmpfiles' = tmpfiles \ {s}
           /\ shm' = [n \in DOMAIN shm \ {s} |-> shm[n]]
           /\ heap' = IF s = NULL THEN heap ELSE heap \cup {s}
           /\ \/ threads' = [threads EXCEPT ![t].pc = IF shell \/ ~hasarg THEN "ran"
                                                      ELSE "clear"]
              \/ /\ s \in heap
                 /\ threads' = [u \in Threads |-> [threads[u] EXCEPT !.pc = "aborted"]]
    /\ UNCHANGED <<mirror, procs, eager, fdtab, handles, ret, pre, nops, nruns, nedits,
                   children, pipe>>

\* *(program->filearg)=0
program_clear(t) ==
    /\ threads[t].pc = "clear"
    /\ LET program == procs[threads[t].res].program
       IN  procs' = [procs EXCEPT ![threads[t].res].program.args[program.filearg] = NULL]
    /\ threads' = [threads EXCEPT ![t].pc = "ran"]
    /\ UNCHANGED <<mirror, eager, fdtab, handles, tmpfiles, ret, pre, nops, nruns, nedits,
                   children, heap, shm, pipe>>

\* back in the handler.  sfs_open: the FileStruct of the artifact;
\* sfs_getattr: fstat(handle, &realsize) and close(handle)
run_script_return(t) ==
    /\ threads[t].pc = "ran"
    /\ LET th == threads[t]
       IN  IF th.op = "open"
           THEN /\ handles' = handles @@ (NewPtr(handles) :>
                                 [type |-> "T_SCRIPT", file_handle |-> th.handle,
                                  filename |-> th.file])
                /\ threads' = [threads EXCEPT ![t].pc = "reply", ![t].fh = NewPtr(handles)]
                /\ fdtab' = fdtab
           ELSE /\ threads' = [threads EXCEPT ![t].pc = "reply",
                                              ![t].v = fdtab[th.handle].data]
                /\ fdtab' = close(fdtab, th.handle)
                /\ handles' = handles
    /\ UNCHANGED <<mirror, procs, eager, tmpfiles, ret, pre, nops, nruns, nedits,
                   children, heap, shm, pipe>>

\* sfs_open of a file that is no script: openat and the FileStruct
sfs_open_file(t) ==
    /\ threads[t].pc = "openat"
    /\ LET th == threads[t]
           o == openat(mirror, th.file, O_RDONLY)
       IN  IF o.ok
           THEN /\ fdtab' = fdtab @@ (NewFd(fdtab) :>
                               [kind |-> "mirror", name |-> o.name, data |-> "", pos |-> 0,
                                acc |-> O_RDONLY])
                /\ handles' = handles @@ (NewPtr(handles) :>
                                 [type |-> "T_FILE", file_handle |-> NewFd(fdtab),
                                  filename |-> th.file])
                /\ threads' = [threads EXCEPT ![t].pc = "reply", ![t].handle = NewFd(fdtab),
                                              ![t].fh = NewPtr(handles)]
           ELSE /\ threads' = [threads EXCEPT ![t].pc = "reply", ![t].code = -o.errno]
                /\ UNCHANGED <<fdtab, handles>>
    /\ UNCHANGED <<mirror, procs, eager, tmpfiles, ret, pre, nops, nruns, nedits,
                   children, heap, shm, pipe>>

(* sfs_read and sfs_release *)

\* a handle no thread is working on
Quiet(fh) == \A u \in Threads : threads[u].pc = "idle" \/ threads[u].fh # fh

\* sfs_read up to lseek(fs->file_handle, offset, SEEK_SET)
sfs_read_lseek(t, fh, offset) ==
    /\ Accept(t, "read", "", fh, offset)
    /\ \A u \in Threads : threads[u].pc # "idle" /\ threads[u].fh = fh => threads[u].op = "read"
    /\ LET fd == handles[fh].file_handle
           sk == lseek(mirror, fdtab, fd, offset, SEEK_SET)
       IN  /\ fdtab' = [fdtab EXCEPT ![fd].pos = sk.pos]
           /\ threads' = [threads EXCEPT ![t] =
                 [IdleThread EXCEPT !.pc = IF sk.res < 0 THEN "reply" ELSE "read",
                                    !.op = "read", !.fh = fh, !.offset = offset,
                                    !.n = nops + 1, !.handle = fd,
                                    !.code = IF sk.res < 0 THEN -sk.errno ELSE 0]]
    /\ UNCHANGED <<procs, handles, tmpfiles, children, heap, shm, nruns>>

\* ssize_t num=read(fs->file_handle, buf, size)
sfs_read_read(t) ==
    /\ threads[t].pc = "read"
    /\ LET th == threads[t]
           rd == read(mirror, fdtab, th.handle, fdtab[th.handle].pos, ReadSizeMT)
       IN  /\ fdtab' = [fdtab EXCEPT ![th.handle].pos = IF rd.num >= 0 THEN @ + rd.num ELSE @]
           /\ threads' = [threads EXCEPT ![t].pc = "reply",
                                         ![t].code = IF rd.num >= 0 THEN rd.num ELSE -rd.errno,
                                         ![t].data = rd.buf]
    /\ UNCHANGED <<mirror, procs, eager, handles, tmpfiles, ret, pre, nops, nruns, nedits,
                   children, heap, shm, pipe>>

\* sfs_release: the kernel sends it when no request on the handle is pending
sfs_release_mt(t, fh) ==
    /\ Accept(t, "release", "", fh, 0)
    /\ Quiet(fh)
    /\ fdtab' = close(fdtab, handles[fh].file_handle)
    /\ handles' = [h \in DOMAIN handles \ {fh} |-> handles[h]]
    /\ nruns' = nruns
    /\ threads' = [threads EXCEPT ![t] =
          [IdleThread EXCEPT !.pc = "reply", !.op = "release", !.fh = fh, !.n = nops + 1,
                             !.closed = [fd |-> handles[fh].file_handle, before |-> fdtab,
                                         after |-> close(fdtab, handles[fh].file_handle)]]]
    /\ UNCHANGED <<procs, tmpfiles, children, heap, shm>>

\* the reply is sent and the thread takes the next request; the children
\* of the request are forgotten
fuse_reply_mt(t) ==
    /\ threads[t].pc = "reply"
    /\ threads' = [threads EXCEPT ![t] = IdleThread]
    /\ children' = [p \in {q \in DOMAIN children : children[q].parent # t} |-> children[p]]
    /\ UNCHANGED <<mirror, procs, eager, fdtab, handles, tmpfiles, ret, pre, nops, nruns, nedits,
                   heap, shm, pipe>>

InitMT ==
    /\ mirror = Mirror0
    /\ procs \in MountsMT
    /\ eager \in BOOLEAN
    /\ fdtab = <<>>
    /\ handles = <<>>
    /\ tmpfiles = {}
    /\ ret = Idle
    /\ pre = NoPre
    /\ nops = 0
    /\ nedits = 0
    /\ nruns = 0
    /\ threads = [t \in Threads |-> IdleThread]
    /\ children = <<>>
    /\ heap = {}
    /\ shm = <<>>
    /\ pipe = <<>>

NextMT ==
    \/ \E t \in Threads, path \in PathsMT : sfs_open_mt(t, path)
    \/ \E t \in Threads, path \in PathsMT : sfs_getattr_mt(t, path)
    \/ \E t \in Threads : test_program_filearg(t)
    \/ \E t \in Threads : test_program_fork(t)
    \/ \E t \in Threads : test_program_wait(t)
    \/ \E t \in Threads : test_program_reset(t)
    \/ \E t \in Threads : run_script_mkstemp(t)
    \/ \E t \in Threads : program_temp_copy(t)
    \/ \E t \in Threads : program_fork(t)
    \/ \E t \in Threads : program_wait(t)
    \/ \E t \in Threads : program_unlink(t)
    \/ \E t \in Threads : program_clear(t)
    \/ \E t \in Threads : run_script_return(t)
    \/ \E t \in Threads : sfs_open_file(t)
    \/ \E t \in Threads, fh \in DOMAIN handles, offset \in ReadOffsetsMT :
          sfs_read_lseek(t, fh, offset)
    \/ \E t \in Threads : sfs_read_read(t)
    \/ \E t \in Threads, fh \in DOMAIN handles : sfs_release_mt(t, fh)
    \/ \E t \in Threads : fuse_reply_mt(t)
    \/ \E pid \in DOMAIN children : child_exit(pid)

SpecMT == InitMT /\ [][NextMT]_vars

----------------------------------------------------------------------------
(* execute_program feeding a filter.  With path_in given the parent makes  *)
(* a pipe, forks, closes the read end, copies the mirror file into the     *)
(* write end buffer by buffer, closes the write end and waits.  A write to *)
(* a pipe blocks while the pipe is full and some process holds the read    *)
(* end; with no read end open it fails with EPIPE (the FUSE loop runs with *)
(* SIGPIPE handled, so the writer is not killed).  The child has closed    *)
(* its copy of the write end before the program starts; the program reads  *)
(* its standard input or not and terminates or not.  One call is           *)
(* modelled, with no other process holding the ends of the pipe.           *)

\* sizeof buffer (0x400 in the source) and the capacity of a pipe, scaled
BufferSize == 2
PipeCapacity == 3

EPIPE == 32

\* the files a filter is run on: a, b and a name that does not exist
PipePaths == {"a", "b", "n"}

\* Variant: write blocks on a full pipe also when nobody can read it.
pipe_write_blocking(buf, readers, n) ==
    IF Len(buf) >= PipeCapacity THEN [blocked |-> TRUE, num2 |-> 0, errno |-> 0]
    ELSE [blocked |-> FALSE, num2 |-> Min(n, PipeCapacity - Len(buf)), errno |-> 0]

\* write(fds[1], .., n) on a pipe that holds buf
pipe_write(buf, readers, n) ==
    IF ~readers THEN [blocked |-> FALSE, num2 |-> -1, errno |-> EPIPE]
    ELSE IF Len(buf) >= PipeCapacity THEN [blocked |-> TRUE, num2 |-> 0, errno |-> 0]
    ELSE [blocked |-> FALSE, num2 |-> Min(n, PipeCapacity - Len(buf)), errno |-> 0]

\* the variables a call of execute_program leaves alone
nopipe == <<mirror, procs, eager, fdtab, handles, tmpfiles, ret, pre, nops, nedits, mtvars>>

\* if (path_in!=0) pipe(fds); child=fork(); and, in the child, close(fds[1])
\* and dup2(fds[0], STDIN_FILENO)
execute_program_fork ==
    /\ pipe.pc = "fork"
    /\ pipe' = [pipe EXCEPT !.pc = "close0", !.fds0 = TRUE, !.fds1 = TRUE, !.stdin = TRUE,
                            !.child.state = "running"]
    /\ UNCHANGED nopipe

\* close(fds[0])
execute_program_close0 ==
    /\ pipe.pc = "close0"
    /\ pipe' = [pipe EXCEPT !.pc = "openat", !.fds0 = FALSE]
    /\ UNCHANGED nopipe

\* in=openat(persistent.mirror_fd, path_in, O_RDONLY); if (in<0) path_in=0
execute_program_openat ==
    /\ pipe.pc = "openat"
    /\ LET o == openat(mirror, pipe.path_in, O_RDONLY)
       IN  pipe' = [pipe EXCEPT !.pc = IF o.ok THEN "read" ELSE "close1",
                                !.in = IF o.ok THEN o.name ELSE NULL]
    /\ UNCHANGED nopipe

\* num=read(in, buffer, sizeof buffer); numw=0; and the test of the loops
execute_program_read ==
    /\ pipe.pc = "read"
    /\ LET buffer == Slice(mirror[pipe.in].data, pipe.off, BufferSize)
       IN  pipe' = [pipe EXCEPT !.pc = IF Len(buffer) > 0 THEN "write" ELSE "close1",
                                !.buffer = buffer, !.num = Len(buffer), !.numw = 0,
                                !.off = @ + Len(buffer)]
    /\ UNCHANGED nopipe

\* num2=write(fds[1], buffer+numw, num-numw);
\* if (num2<0) numw=num; else numw+=num2;
execute_program_write ==
    /\ pipe.pc = "write"
    /\ LET w == pipe_write(pipe.buf, pipe.stdin, pipe.num - pipe.numw)
           numw == IF w.num2 < 0 THEN pipe.num ELSE pipe.numw + w.num2
       IN  /\ ~w.blocked
           /\ pipe' = [pipe EXCEPT !.pc = IF numw < pipe.num THEN "write" ELSE "read",
                                   !.numw = numw,
                                   !.lost = @ \/ w.num2 < 0,
                                   !.buf = IF w.num2 < 0 THEN @
                                           ELSE @ \o Slice(pipe.buffer, pipe.numw, w.num2)]
    /\ UNCHANGED nopipe

\* fsync(fds[1]); close(fds[1])
execute_program_close1 ==
    /\ pipe.pc = "close1"
    /\ pipe' = [pipe EXCEPT !.pc = "waitpid", !.fds1 = FALSE]
    /\ UNCHANGED nopipe

\* waitpid(child, &code, 0); if (WIFEXITED(code)) return WEXITSTATUS(code)
execute_program_waitpid ==
    /\ pipe.pc = "waitpid"
    /\ waitpid(pipe.child)
    /\ pipe' = [pipe EXCEPT !.pc = "return", !.child.state = "reaped",
                            !.code = execute_program(pipe.child)]
    /\ UNCHANGED nopipe

\* the program reads from its standard input: what is in the pipe, up to a
\* buffer; on an empty pipe it waits, or sees the end when no write end is
\* open
filter_read ==
    /\ pipe.child.state = "running"
    /\ pipe.reads
    /\ pipe.buf # ""
    /\ pipe' = [pipe EXCEPT !.got = @ \o Slice(pipe.buf, 0, BufferSize),
                            !.buf = Slice(@, BufferSize, PipeCapacity)]
    /\ UNCHANGED nopipe

\* the program terminates: its descriptors are closed
filter_exit ==
    /\ pipe.child.state = "running"
    /\ \E status \in {0, 1} :
          pipe' = [pipe EXCEPT !.child.state = "zombie", !.child.status = status,
                               !.stdin = FALSE]
    /\ UNCHANGED nopipe

\* the parent's steps
execute_program_steps ==
    \/ execute_program_fork
    \/ execute_program_close0
    \/ execute_program_openat
    \/ execute_program_read
    \/ execute_program_write
    \/ execute_program_close1
    \/ execute_program_waitpid

InitPipe ==
    /\ mirror = Mirror0
    /\ procs = ProcsFilter
    /\ eager = FALSE
    /\ fdtab = <<>>
    /\ handles = <<>>
    /\ tmpfiles = {}
    /\ ret = Idle
    /\ pre = NoPre
    /\ nops = 0
    /\ nedits = 0
    /\ threads = <<>>
    /\ children = <<>>
    /\ heap = {}
    /\ shm = <<>>
    /\ nruns = 0
    /\ \E path_in \in PipePaths, reads \in BOOLEAN :
          pipe = [pc |-> "fork", path_in |-> path_in, in |-> NULL, off |-> 0, buffer |-> "",
                  num |-> 0, numw |-> 0, buf |-> "", fds0 |-> FALSE, fds1 |-> FALSE,
                  stdin |-> FALSE, reads |-> reads, got |-> "", lost |-> FALSE, code |-> -1,
                  child |-> [state |-> "none", exited |-> TRUE, status |-> 0, out |-> ""]]

NextPipe ==
    \/ execute_program_steps
    \/ filter_read
    \/ filter_exit

\* the parent is a thread of a running process: it takes its next step
\* unless it is blocked in a system call
SpecPipe == InitPipe /\ [][NextPipe]_vars /\ WF_vars(execute_program_steps)

----------------------------------------------------------------------------
(* Properties.  A property about a request is stated on the state its     *)
(* handler leaves: pre is the state the handler found, ret is its reply.   *)

\* the file a reply is about, relative to the mirror
ReplyFile(r) == relative_path(r.path)

\* the path names a regular file of the mirror (through a final symbolic
\* link when `follow`)
Regular(file, follow) ==
    LET st == fstatat(pre.mirror, file, follow) IN st.code = 0 /\ S_ISREG(st.st_mode)

\* the procedures whose test returns match for the file, the external tests
\* ending as tenv says
Matching(file, tenv) ==
    { i \in 1..Len(pre.procs) :
        pre.procs[i].test.func # "none"
        /\ CallTest(pre.procs[i].test, file, pre.mirror, pre.fdtab, tenv[i]).match }

\* the procedures up to n that have a test function, in list order
Tested(n) == SelectSeq([i \in 1..n |-> i], LAMBDA i : pre.procs[i].test.func # "none")

\* the sixteen bits of a mode
ModeBits == { 2 ^ k : k \in 0..15 }

ScriptHandles(hs) == { fh \in DOMAIN hs : hs[fh].type = "T_SCRIPT" }

RegularHandles(hs) == { fh \in DOMAIN hs : hs[fh].type = "T_FILE" }

\* the descriptor behind a live handle, as the handler found it
PreFd(fh) == pre.fdtab[pre.handles[fh].file_handle]

\* C1: a classification returns the first procedure in list order whose test
\* matches the file, or none when no test matches; the tests are called in
\* list order and no test after the first match is called.
C1_FirstMatch ==
    ret.classified =>
       LET M == Matching(ReplyFile(ret), ret.tenv)
           first == CHOOSE i \in M : \A j \in M : i <= j
       IN  IF M = {}
           THEN ret.matched = 0 /\ ret.invoked = Tested(Len(pre.procs))
           ELSE ret.matched = first /\ ret.invoked = Tested(first)

\* a file both procedures of the list match was classified: the first
\* procedure was returned and the second test was not called
C1_Witness ==
    /\ ret.classified
    /\ Len(procs) = 2
    /\ procs[2].test.func = "test_true"
    /\ ret.matched = 1
    /\ ret.invoked = <<1>>

\* C2: sfs_open of a path the classifier matches with O_WRONLY or O_RDWR in
\* the flags returns -EACCES; no temporary artifact is created, no program
\* is spawned and no handle is registered.
C2_WriteOpenRefused ==
    (/\ ret.op = "open"
     /\ AccMode(ret.arg) \in {O_WRONLY, O_RDWR}
     /\ Matching(ReplyFile(ret), ret.tenv) # {})
    => /\ ret.code = -EACCES
       /\ ret.fh = 0
       /\ ret.calls = 0
       /\ ret.forks = 0
       /\ \A fd \in DOMAIN fdtab \ DOMAIN pre.fdtab : fdtab[fd].kind # "artifact"
       /\ tmpfiles = pre.tmpfiles
       /\ handles = pre.handles

C2_Witness ==
    /\ ret.op = "open"
    /\ ret.arg = O_LARGEFILE + O_RDWR
    /\ ret.matched # 0
    /\ ret.code = -EACCES

\* C3: sfs_truncate and sfs_utimens of a path that names a regular mirror
\* file the classifier matches return -EACCES and leave the mirror (size,
\* content and timestamps of the file) unchanged.
C3_ScriptNotTruncatedNorTouched ==
    (/\ ret.op \in {"truncate", "utimens"}
     /\ Regular(ReplyFile(ret), TRUE)
     /\ Matching(ReplyFile(ret), ret.tenv) # {})
    => ret.code = -EACCES /\ mirror = pre.mirror

C3_Witness ==
    /\ ret.op = "truncate"
    /\ ret.matched # 0
    /\ ret.code = -EACCES

C5_WriteAccessRefusedWithEACCES ==
    ret.op = "access" =>
       LET file == ReplyFile(ret)
           own == faccessat(pre.mirror, file, ret.arg)
       IN  IF Bit(ret.arg, W_OK) # 0
           THEN (Regular(file, TRUE) /\ (ret.classified => Matching(file, ret.tenv) # {}))
                   => ret.code = -EACCES
           ELSE ret.code = IF own.code = 0 THEN 0 ELSE -own.errno

\* C6: sfs_getattr by path returns the mirrors mode with the owner, group
\* and other write bits cleared when the entry is a regular file the
\* classifier matches, and the mirrors mode unchanged for every other
\* entry (files that do not match, directories, symbolic links).
C6_WriteBitsCleared ==
    (ret.op = "getattr" /\ ret.code = 0) =>
       LET file == ReplyFile(ret)
           st == fstatat(pre.mirror, file, FALSE)
       IN  IF S_ISREG(st.st_mode) /\ Matching(file, ret.tenv) # {}
           THEN \A b \in ModeBits :
                   Bit(ret.st_mode, b) = IF b \in {S_IWUSR, S_IWGRP, S_IWOTH} THEN 0
                                          ELSE Bit(st.st_mode, b)
           ELSE ret.st_mode = st.st_mode

\* the script with mode 0775 in the mirror was reported with mode 0555
C6_Witness ==
    /\ ret.op = "getattr"
    /\ ret.matched # 0
    /\ ret.st_mode = S_IFREG + 365

\* C7: sfs_getattr of a script.  With eager size, once the artifact is
\* created the program function is called once during the getattr and
\* st_size is the length of the standard output it captured; without eager
\* size, st_size is the size of the mirror file and no program is run.
C7_SizeOfScript ==
    (/\ ret.op = "getattr"
     /\ Regular(ReplyFile(ret), FALSE)
     /\ Matching(ReplyFile(ret), ret.tenv) # {})
    => IF eager
       THEN ret.env.mkart
               => /\ ret.calls = 1
                  /\ ret.forks = 1 => ret.out = ret.env.child.out
                  /\ ret.st_size = Len(ret.out)
       ELSE /\ ret.st_size = Len(pre.mirror[ReplyFile(ret)].data)
            /\ ret.calls = 0
            /\ ret.forks = 0
            /\ tmpfiles = pre.tmpfiles

\* an eager getattr reported the two bytes the script wrote
C7_Witness ==
    /\ ret.op = "getattr"
    /\ eager
    /\ ret.matched # 0
    /\ ret.forks = 1
    /\ ret.out = "Hi"
    /\ ret.st_size = 2

\* C8 as stated: with eager size, when the script fails to run during
\* sfs_getattr (the artifact cannot be created, the temporary copy cannot be
\* made, or the program cannot be executed), getattr returns success and
\* st_size is the size of the mirror file.
C8_FallsBackToSourceSize ==
    (/\ ret.op = "getattr"
     /\ eager
     /\ Regular(ReplyFile(ret), FALSE)
     /\ Matching(ReplyFile(ret), ret.tenv) # {}
     /\ \/ ~ret.env.mkart
        \/ ret.forks = 0
        \/ ~ret.env.child.exited)
    => /\ ret.code = 0
       /\ ret.st_size = Len(pre.mirror[ReplyFile(ret)].data)

\* C9: sfs_open of a script for reading succeeds with a Script handle
\* whenever the artifact could be created, whatever the program did; the
\* artifact holds the standard output that was produced, possibly none.
C9_OpenSucceedsWhateverTheProgram ==
    (/\ ret.op = "open"
     /\ AccMode(ret.arg) = O_RDONLY
     /\ Matching(ReplyFile(ret), ret.tenv) # {}
     /\ ret.env.mkart)
    => /\ ret.code = 0
       /\ ret.fh \in DOMAIN handles \ DOMAIN pre.handles
       /\ handles[ret.fh].type = "T_SCRIPT"
       /\ handles[ret.fh].file_handle \in DOMAIN fdtab
       /\ fdtab[handles[ret.fh].file_handle].kind = "artifact"
       /\ fdtab[handles[ret.fh].file_handle].data = ret.out
       /\ ret.out = IF ret.forks = 1 THEN ret.env.child.out ELSE ""

\* a script was opened although its program was killed
C9_Witness ==
    /\ ret.op = "open"
    /\ ret.env.mkart
    /\ ret.forks = 1
    /\ ~ret.env.child.exited
    /\ ret.code = 0
    /\ ret.fh \in ScriptHandles(handles)

C11_RegularReadIsMirrorRead ==
    /\ (/\ ret.op = "open"
        /\ Regular(ReplyFile(ret), TRUE)
        /\ Matching(ReplyFile(ret), ret.tenv) = {}
        /\ openat(pre.mirror, ReplyFile(ret), ret.arg).ok)
       => /\ ret.code = 0
          /\ ret.fh \in RegularHandles(handles) \ DOMAIN pre.handles
          /\ handles[ret.fh].file_handle \in DOMAIN fdtab \ DOMAIN pre.fdtab
          /\ fdtab[handles[ret.fh].file_handle].kind = "mirror"
          /\ fdtab[handles[ret.fh].file_handle].name = Resolve(pre.mirror, ReplyFile(ret), TRUE)
          /\ ret.calls = 0
    /\ (/\ ret.op = "read"
        /\ ret.fh \in RegularHandles(pre.handles)
        /\ PreFd(ret.fh).kind = "mirror"
        /\ S_ISREG(pre.mirror[PreFd(ret.fh).name].mode)
        /\ AccMode(PreFd(ret.fh).acc) # O_WRONLY)
       => LET data == pre.mirror[PreFd(ret.fh).name].data
              from == ret.arg
              upto == Min(Len(data), ret.arg + ret.st_size)
          IN  /\ ret.code = IF from >= Len(data) THEN 0 ELSE upto - from
              /\ Len(ret.data) = ret.code
              /\ \A k \in 1..ret.code : SubSeq(ret.data, k, k) = SubSeq(data, from + k, from + k)

\* file b ("ABCDE") was read through a regular handle at offset 1 for eight
\* bytes: the four bytes up to its end came back
C11_Witness ==
    /\ ret.op = "read"
    /\ ret.fh \in RegularHandles(handles)
    /\ ret.arg = 1
    /\ ret.st_size = 8
    /\ ret.data = "BCDE"

\* a read at the end of file b returned nothing
C11_WitnessAtEnd ==
    /\ ret.op = "read"
    /\ ret.fh \in RegularHandles(handles)
    /\ ret.arg = 5
    /\ ret.code = 0
    /\ PreFd(ret.fh).name = "b"

\* the bytes of a file from offset off on, n of them at most
Bytes(data, off, n) == Slice(data, off, n)

\* C12: sfs_write of a buffer at an offset through a handle of type T_FILE
\* opened for writing on a mirror file (by sfs_open or by sfs_create) returns
\* the length of the buffer; the mirror file then holds the buffer at that
\* offset, its bytes before the offset are as they were (zero bytes where
\* the file ended before the offset) and no other mirror file changed.  In
\* the other direction, after another process changed a mirror file
\* directly, sfs_read through a handle on it returns the changed bytes.
C12_WritesAndMirrorAgree ==
    /\ (/\ ret.op = "write"
        /\ ret.fh \in RegularHandles(pre.handles)
        /\ PreFd(ret.fh).kind = "mirror"
        /\ AccMode(PreFd(ret.fh).acc) # O_RDONLY)
       => LET name == PreFd(ret.fh).name
              old == pre.mirror[name].data
          IN  /\ ret.code = Len(ret.data)
              /\ Bytes(mirror[name].data, ret.arg, Len(ret.data)) = ret.data
              /\ Bytes(mirror[name].data, 0, Min(ret.arg, Len(old))) = Bytes(old, 0, ret.arg)
              /\ Len(mirror[name].data) >= ret.arg + Len(ret.data)
              /\ \A other \in DOMAIN mirror \ {name} : mirror[other] = pre.mirror[other]
    /\ (/\ ret.op = "read"
        /\ nedits > 0
        /\ ret.fh \in RegularHandles(pre.handles)
        /\ PreFd(ret.fh).kind = "mirror"
        /\ S_ISREG(pre.mirror[PreFd(ret.fh).name].mode)
        /\ AccMode(PreFd(ret.fh).acc) # O_WRONLY)
       => /\ ret.data = Bytes(mirror[PreFd(ret.fh).name].data, ret.arg, ret.st_size)
          /\ ret.code = Len(ret.data)

\* "xy" was written at offset 1 through a handle sfs_open gave on file b,
\* which now reads "AxyDE" in the mirror
C12_Witness ==
    /\ ret.op = "write"
    /\ ret.fh \in RegularHandles(handles)
    /\ AccMode(fdtab[handles[ret.fh].file_handle].acc) = O_RDWR
    /\ ret.arg = 1
    /\ ret.code = 2
    /\ mirror["b"].data = "AxyDE"

\* "xy" was written at offset 1 through the handle sfs_create gave on the new
\* file n, which now reads one zero byte and "xy" in the mirror
C12_WitnessCreate ==
    /\ ret.op = "write"
    /\ ret.fh \in RegularHandles(handles)
    /\ handles[ret.fh].filename = "n"
    /\ ret.code = 2
    /\ mirror["n"].data = "~xy"

\* file b was changed in the mirror after it was opened at the mount, and a
\* read through the handle returned the new bytes
C12_WitnessMirrorSide ==
    /\ ret.op = "read"
    /\ nedits = 1
    /\ ret.fh \in RegularHandles(handles)
    /\ ret.arg = 0
    /\ ret.data = "Ax"

\* C13 as stated: sfs_write through a handle of type T_SCRIPT returns an error
\* and leaves the bytes of the artifact behind the handle, which later reads
\* return, as they were.
C13_WriteOnScriptHandleRefused ==
    (ret.op = "write" /\ ret.fh \in ScriptHandles(pre.handles))
    => /\ ret.code < 0
       /\ fdtab[pre.handles[ret.fh].file_handle].data = PreFd(ret.fh).data

\* the other tokens of a command line are passed as they are configured
SameButAt(argv, args, slot) ==
    /\ Len(argv) = Len(args)
    /\ \A j \in 1..Len(args) : j # slot => argv[j] = args[j]

\* C14: an external command whose command line has a "!" token.  Invoked
\* as a test, its child gets the path the classifier was given (relative to
\* the mirror) in place of "!".  Invoked as a program, its child gets in
\* place of "!" the name of a temporary copy of the file made for this call
\* from temp_template, holding the bytes of the mirror file, whenever the
\* copy could be made.  Both hold when the same command line is program and
\* test of the procedure.
C14_FileArgument ==
    /\ ret.classified
       => \A k \in 1..Len(ret.invoked) :
             LET test == pre.procs[ret.invoked[k]].test IN
             (test.func = "test_program" /\ test.filearg # 0)
             => /\ ret.runs[k].argv[test.filearg] = ReplyFile(ret)
                /\ SameButAt(ret.runs[k].argv, test.args, test.filearg)
    /\ (ret.calls = 1
        /\ pre.procs[ret.matched].program.func = "program_external"
        /\ pre.procs[ret.matched].program.filearg # 0)
       => LET program == pre.procs[ret.matched].program
              fin == openat(pre.mirror, ReplyFile(ret), O_RDONLY)
          IN  /\ SameButAt(ret.argv, program.args, program.filearg)
              /\ (fin.ok /\ ret.env.mkcopy)
                 => /\ ret.argv[program.filearg] = ret.copy.name
                    /\ ret.copy.name \in
                          { TmpNames[i] : i \in 1..Len(TmpNames) } \ pre.tmpfiles
                    /\ SubSeq(ret.copy.name, 1, Len(tmp_template)) = tmp_template
                    /\ ret.copy.name # ReplyFile(ret)
                    /\ S_ISREG(pre.mirror[fin.name].mode)
                       => ret.copy.data = pre.mirror[fin.name].data

\* with -p 'p !' file a was classified by a child run as "p a" and opened by
\* a child run as "p <temporary copy>"
C14_Witness ==
    /\ ret.op = "open"
    /\ pre.procs = ProcsSame
    /\ ret.path = "/a"
    /\ ret.forks = 1
    /\ ret.runs[1].argv = <<"p", "a">>
    /\ ret.argv = <<"p", TmpNames[1]>>
    /\ ret.copy.data = mirror["a"].data

C15_WitnessClosed ==
    /\ ret.op = "open"
    /\ pre.procs = ProcsSame
    /\ ret.forks = 1
    /\ ret.stdin.closed

\* C16: an external test matches the file exactly when its child exited
\* with status 0; a child that exited with another status or did not exit
\* (killed by a signal, abort() after a failed exec) is no match.
\* execute_program returns the exit status of a child that exited and a
\* nonzero value otherwise.
C16_ExternalTestMatchesOnExitZero ==
    /\ ret.classified
       => \A k \in 1..Len(ret.invoked) :
             LET i == ret.invoked[k] IN
             pre.procs[i].test.func = "test_program"
             => (ret.matched = i <=> (ret.tenv[i].exited /\ ret.tenv[i].status = 0))
    /\ \A child \in TestChildren \cup Children :
          IF child.exited THEN execute_program(child) = child.status
          ELSE execute_program(child) # 0

\* the child of the test of -p 'p !' was killed and the file was not matched
C16_Witness ==
    /\ ret.classified
    /\ pre.procs = ProcsSame
    /\ ret.invoked = <<1>>
    /\ ~ret.tenv[1].exited
    /\ ret.matched = 0

\* the child of the test exited with status 0 and the file was matched
C16_WitnessMatch ==
    /\ ret.classified
    /\ pre.procs = ProcsSame
    /\ ret.tenv[1].exited
    /\ ret.tenv[1].status = 0
    /\ ret.matched = 1

\* the interpreter named on the first line of a file that begins with "#!"
\* ("" when the file does not or names none)
Interpreter(data) ==
    LET line == getline(data, 0)
        i == SkipBlanks(line, 2)
    IN  IF Len(line) >= 2 /\ SubSeq(line, 1, 2) = "#!" /\ i < Len(line) /\ Char(line, i) # "\n"
        THEN SubSeq(line, i + 1, SkipWord(line, i)) ELSE ""

\* the auto program forked a child for the file of the reply
AutoRan ==
    /\ ret.calls = 1
    /\ ret.forks = 1
    /\ pre.procs[ret.matched].program.func = "program_shell"

C17_WitnessNoShebang ==
    /\ AutoRan
    /\ ret.path = "/b"
    /\ ret.exec = [path |-> TmpNames[1], argv |-> <<TmpNames[1]>>]

PathOps ==
    {"getattr", "access", "open", "chmod", "truncate", "utimens", "unlink", "rmdir",
     "readlink", "opendir"}

\* C18 as stated: getattr, access, open, chmod, truncate, utimens, unlink,
\* rmdir, readlink and opendir on a path that does not exist in the mirror
\* return ENOENT, whatever the procedures, and create no artifact and no
\* handle.
C18_MissingPathIsENOENT ==
    (ret.op \in PathOps /\ ~Exists(pre.mirror, ReplyFile(ret)))
    => /\ ret.code = -ENOENT
       /\ ~ret.artifact
       /\ ret.fh = 0
       /\ handles = pre.handles
       /\ \A fd \in DOMAIN fdtab \ DOMAIN pre.fdtab : fdtab[fd].kind # "artifact"

\* the callbacks that are given a handle
FileOps == {"read", "write", "release", "fsync", "flush", "lseek"}
DirOps == {"readdir", "releasedir"}

\* the handler left the descriptors, the handles and the mirror as they were
Untouched ==
    /\ fdtab = pre.fdtab
    /\ handles = pre.handles
    /\ mirror = pre.mirror
    /\ tmpfiles = pre.tmpfiles

\* C19: a callback given a bad handle refuses it and touches no descriptor.
\* A null handle gives EBADF; readdir and releasedir on the handle of a
\* regular file or of a script give ENOTDIR; read, write, release, fsync,
\* flush and lseek on the handle of a directory give EISDIR.
C19_BadHandleRefused ==
    ret.op \in FileOps \cup DirOps
    => /\ ret.fh = 0 => (ret.code = -EBADF /\ Untouched)
       /\ (ret.fh # 0 /\ ret.op \in DirOps /\ pre.handles[ret.fh].type \in {"T_FILE", "T_SCRIPT"})
          => (ret.code = -ENOTDIR /\ Untouched)
       /\ (ret.fh # 0 /\ ret.op \in FileOps /\ pre.handles[ret.fh].type = "T_FOLDER")
          => (ret.code = -EISDIR /\ Untouched)

\* release was called on the handle of a directory
C19_Witness ==
    /\ ret.op = "release"
    /\ ret.fh # 0
    /\ pre.handles[ret.fh].type = "T_FOLDER"
    /\ ret.code = -EISDIR
    /\ pre.handles[ret.fh].dir_handle \in DOMAIN fdtab

\* readdir was called on the handle of a script
C19_WitnessNotDir ==
    /\ ret.op = "readdir"
    /\ ret.fh # 0
    /\ pre.handles[ret.fh].type = "T_SCRIPT"
    /\ ret.code = -ENOTDIR

\* write was called with a null handle
C19_WitnessNull ==
    /\ ret.op = "write"
    /\ ret.fh = 0
    /\ ret.code = -EBADF

C20_WitnessCopy ==
    /\ ret.op \in {"open", "getattr"}
    /\ ret.forks = 1
    /\ ret.copy.name # NULL
    /\ ret.live = {ret.copy.name}
    /\ ret.copy.name \notin tmpfiles

\* the open descriptors of artifacts
ArtifactFds(fds) == { fd \in DOMAIN fds : fds[fd].kind = "artifact" }

\* C22: every artifact descriptor run_script creates is closed once, by
\* sfs_release for an open and before sfs_getattr returns for a size
\* measurement: the open artifact descriptors are the descriptors of the
\* live script handles, one each, and a release of a script handle closes a
\* descriptor that was open.
C22_ArtifactsClosedOnce ==
    /\ ArtifactFds(fdtab) = { handles[h].file_handle : h \in ScriptHandles(handles) }
    /\ Cardinality(ArtifactFds(fdtab)) = Cardinality(ScriptHandles(handles))
    /\ ret.op = "getattr" => ArtifactFds(fdtab) = ArtifactFds(pre.fdtab)
    /\ (ret.op = "release" /\ ret.code = 0 /\ pre.handles[ret.fh].type = "T_SCRIPT")
       => /\ pre.handles[ret.fh].file_handle \in ArtifactFds(pre.fdtab)
          /\ ArtifactFds(fdtab) = ArtifactFds(pre.fdtab) \ {pre.handles[ret.fh].file_handle}

\* a script handle was released and no artifact descriptor is left
C22_Witness ==
    /\ ret.op = "release"
    /\ ret.code = 0
    /\ pre.handles[ret.fh].type = "T_SCRIPT"
    /\ ArtifactFds(pre.fdtab) # {}
    /\ ArtifactFds(fdtab) = {}

\* getattr measured the size of an artifact it ran the program into
C22_WitnessGetattr ==
    /\ ret.op = "getattr"
    /\ ret.artifact
    /\ ret.forks = 1
    /\ ret.st_size = Len(ret.out)
    /\ ret.out # ""
    /\ ArtifactFds(fdtab) = {}

\* C23 as stated: the procedure list, with the argument vector of every
\* program and of every test, is after a request what it was before it: no
\* classification and no run of a program changes an element of it.
C23_ProcedureListUnchanged ==
    ret.op # "idle" => procs = pre.procs

\* C28: sfs_chmod by path never gives a write bit to a regular file the
\* classifier matches.  The mode handed to fchmodat is the requested mode
\* without its owner, group and other write bits for such a file and the
\* requested mode itself for every other entry; the entry's permissions in
\* the mirror afterwards are those of the mode handed over, and no other
\* entry changes.
C28_ChmodNeverAddsWriteBit ==
    (ret.op = "chmod" /\ ret.code = 0) =>
       LET file == ReplyFile(ret)
           e == Resolve(pre.mirror, file, TRUE)
           script == /\ Regular(file, TRUE)
                     /\ \E b \in {S_IWUSR, S_IWGRP, S_IWOTH} : Bit(ret.arg, b) # 0
                     /\ Matching(file, ret.tenv) # {}
       IN  /\ \A b \in ModeBits :
                Bit(ret.applied, b) = IF script /\ b \in {S_IWUSR, S_IWGRP, S_IWOTH} THEN 0
                                       ELSE Bit(ret.arg, b)
           /\ Perms(mirror[e].mode) = Perms(ret.applied)
           /\ FileType(mirror[e].mode) = FileType(pre.mirror[e].mode)
           /\ script => \A b \in {S_IWUSR, S_IWGRP, S_IWOTH} : Bit(mirror[e].mode, b) = 0
           /\ \A n \in Names \ {e} : mirror[n] = pre.mirror[n]

\* chmod 0777 of the script a, which had mode 0775, left it with mode 0555
C28_Witness ==
    /\ ret.op = "chmod"
    /\ ret.path = "/a"
    /\ ret.code = 0
    /\ ret.matched # 0
    /\ Perms(ret.arg) = 511
    /\ Perms(pre.mirror["a"].mode) = 509
    /\ Perms(mirror["a"].mode) = 365

\* chmod 0777 of the file b, which no test matches, gave it mode 0777
C28_WitnessNoMatch ==
    /\ ret.op = "chmod"
    /\ ret.path = "/b"
    /\ ret.classified
    /\ ret.matched = 0
    /\ Perms(mirror["b"].mode) = 511

\* C30 as stated: sfs_lseek on the handle of a regular file or of a script
\* returns the offset the seek leaves the descriptor at (off for SEEK_SET,
\* the position plus off for SEEK_CUR, the size plus off for SEEK_END), or
\* a negative errno when the seek fails.
C30_LseekReturnsOffset ==
    (/\ ret.op = "lseek"
     /\ ret.fh # 0
     /\ pre.handles[ret.fh].type \in {"T_FILE", "T_SCRIPT"})
    => LET fd == pre.handles[ret.fh].file_handle
           whence == ret.st_size
           base == IF whence = SEEK_SET THEN 0
                   ELSE IF whence = SEEK_CUR THEN pre.fdtab[fd].pos
                   ELSE Len(FileData(pre.mirror, pre.fdtab, fd))
       IN  IF base + ret.arg < 0 THEN ret.code = -EINVAL
           ELSE ret.code = base + ret.arg /\ fdtab[fd].pos = ret.code

\* C27 as stated: when sfs_symlink(target, linkpath) succeeds the mirror
\* holds a symbolic link under relative_path(linkpath) whose content is
\* target, which is what sfs_readlink(linkpath) returns, and no other entry
\* of the mirror is created or changed.
C27_SymlinkThenReadlink ==
    (ret.op = "symlink" /\ ret.code = 0)
    => LET target == ret.data
           link == relative_path(ret.path)
       IN  /\ Exists(mirror, link)
           /\ S_ISLNK(mirror[link].mode)
           /\ mirror[link].data = target
           /\ readlinkat(mirror, link, Len(target) + 1).buf = target
           /\ \A n \in Names \ {link} : mirror[n] = pre.mirror[n]

----------------------------------------------------------------------------
(* Properties of the threaded server *)

\* a thread that is about to reply to a request of kind op
Replying(t, op) == threads[t].pc = "reply" /\ threads[t].op = op

\* C26: a read that succeeds returns the bytes of the file that start at
\* the offset of this very request, whatever other reads of the same handle
\* are in progress.
C26_ReadReturnsOwnOffset ==
    \A t \in Threads :
        Replying(t, "read") /\ threads[t].code >= 0
        => threads[t].data = Slice(FileData(mirror, fdtab, threads[t].handle),
                                   threads[t].offset, ReadSizeMT)

\* the request of thread t is on a file that an external procedure with a
\* file argument matched
ExternalRun(t) ==
    /\ threads[t].res # 0
    /\ threads[t].pc \in {"program", "fork", "wait", "unlink", "clear", "ran", "reply"}
    /\ procs[threads[t].res].program.func = "program_external"
    /\ procs[threads[t].res].program.filearg # 0

\* C25: with an external procedure that has a file argument, the child of a
\* test is given the path of the file of its own request, the child of a
\* program is given the temporary copy made for its own request, and the
\* artifact of an open holds the output for the file that was opened.
C25_ChildGetsOwnFile ==
    /\ \A pid \in DOMAIN children :
          /\ children[pid].kind = "test"
             => children[pid].file = threads[children[pid].parent].file
          /\ children[pid].kind = "program" /\ ExternalRun(children[pid].parent)
             => children[pid].file = threads[children[pid].parent].copy
    /\ \A t \in Threads :
          Replying(t, "open") /\ ExternalRun(t)
          => fdtab[threads[t].handle].data = mirror[threads[t].file].data

\* the children forked for the request thread t is handling
Spawned(t) == { pid \in DOMAIN children : children[pid].parent = t }

\* the request of thread t ran the program of a procedure
RanScript(t) ==
    threads[t].res # 0 /\ (threads[t].op = "open" \/ (threads[t].op = "getattr" /\ eager))

\* C24: when sfs_open or sfs_getattr is about to return, every child forked
\* for the request has terminated and has been waited for, and a request
\* that ran a script did fork the child of its program.
C24_ReturnsAfterChildReaped ==
    \A t \in Threads :
        threads[t].pc = "reply" /\ threads[t].op \in {"open", "getattr"}
        => /\ \A pid \in Spawned(t) : children[pid].state = "reaped"
           /\ RanScript(t) => threads[t].prog \in Spawned(t)

C24_Witness ==
    \E t \in Threads :
        /\ Replying(t, "open") /\ RanScript(t)
        /\ Cardinality(Spawned(t)) = 2
        /\ \A pid \in Spawned(t) : children[pid].state = "reaped"

C24_WitnessGetattr ==
    \E t \in Threads :
        /\ Replying(t, "getattr") /\ RanScript(t)
        /\ threads[t].prog \in Spawned(t)
        /\ children[threads[t].prog].state = "reaped"

\* C21: two opens of one script that overlap give two handles with two
\* artifacts of their own, each written by a child of its own that has been
\* waited for; releasing a handle closes the descriptor of that handle and
\* leaves every other descriptor open with its content and position, and
\* every other handle in place.
C21_IndependentArtifacts ==
    /\ \A t, u \in Threads :
          /\ t # u
          /\ Replying(t, "open") /\ RanScript(t)
          /\ Replying(u, "open") /\ RanScript(u)
          /\ threads[t].file = threads[u].file
          => /\ threads[t].fh # threads[u].fh
             /\ threads[t].handle # threads[u].handle
             /\ \A v \in {t, u} :
                   /\ handles[threads[v].fh].file_handle = threads[v].handle
                   /\ fdtab[threads[v].handle].kind = "artifact"
                   /\ threads[v].prog \in Spawned(v)
                   /\ children[threads[v].prog].fd = threads[v].handle
                   /\ children[threads[v].prog].state = "reaped"
             /\ threads[t].prog # threads[u].prog
    /\ \A fh, gh \in ScriptHandles(handles) :
          fh # gh => handles[fh].file_handle # handles[gh].file_handle
    /\ \A t \in Threads :
          Replying(t, "release")
          => /\ threads[t].closed.fd \notin DOMAIN threads[t].closed.after
             /\ \A g \in DOMAIN threads[t].closed.before \ {threads[t].closed.fd} :
                   /\ g \in DOMAIN threads[t].closed.after
                   /\ threads[t].closed.after[g] = threads[t].closed.before[g]
             /\ \A gh \in DOMAIN handles : handles[gh].file_handle \in DOMAIN fdtab

C21_Witness ==
    \E t, u \in Threads :
        /\ t # u
        /\ Replying(t, "open") /\ RanScript(t)
        /\ Replying(u, "open") /\ RanScript(u)
        /\ threads[t].file = "a" /\ threads[u].file = "a"
        /\ fdtab[threads[t].handle].data # ""
        /\ fdtab[threads[u].handle].data # ""

C21_WitnessRelease ==
    \E t \in Threads :
        /\ Replying(t, "release")
        /\ threads[t].closed.before[threads[t].closed.fd].kind = "artifact"
        /\ \E gh \in ScriptHandles(handles) :
              /\ handles[gh].filename = "a"
              /\ fdtab[handles[gh].file_handle].kind = "artifact"
              /\ fdtab[handles[gh].file_handle].data # ""
              /\ fdtab[handles[gh].file_handle].data
                    = threads[t].closed.before[threads[t].closed.fd].data

----------------------------------------------------------------------------
(* Properties of execute_program feeding a filter *)

\* C29: once the child of a filter has terminated, execute_program returns,
\* whatever the child read of its standard input and however large the
\* file is; and when it returns the parent holds neither end of the pipe.
C29_ParentReturns ==
    /\ [](pipe.pc = "return" => ~pipe.fds0 /\ ~pipe.fds1)
    /\ (pipe.child.state = "zombie" ~> pipe.pc = "return")

\* returned from a child that read nothing of a file larger than the pipe
C29_Witness ==
    /\ pipe.pc = "return"
    /\ pipe.in # NULL
    /\ Len(mirror[pipe.in].data) > PipeCapacity + BufferSize
    /\ pipe.got = ""
    /\ pipe.lost
    /\ ~pipe.fds0 /\ ~pipe.fds1

\* returned from a child that read the whole file
C29_WitnessRead ==
    /\ pipe.pc = "return"
    /\ pipe.in # NULL
    /\ pipe.got = mirror[pipe.in].data
    /\ Len(pipe.got) > PipeCapacity

====
